---------------------------- MODULE Spec2Model ----------------------------
(***************************************************************************)
(* Model of the pre-NY gap-fill analysis scripts of Millionaire-Trading:   *)
(*   V1  = ESTRATEGIA_TRADING_GAP_FILL.py                                  *)
(*   V2  = ESTRATEGIA_TRADING_GAP_FILL_V2.py                               *)
(*   V3  = ESTRATEGIA_TRADING_GAP_FILL_V3.py                               *)
(*   LIQ = Estrategia_Gaps_LiqBinance_v1.py                                *)
(*                                                                         *)
(* Number conventions.  Prices are integers on an even grid whose daily    *)
(* bars are multiples of 6, so that (H+L+C)/3, (bottom+top)/2, atr*0.5 and *)
(* atr*1.5 are exact.  Scores are held in tenths of a point (1.0 point =   *)
(* 10), multipliers in tenths (0.5 = 5).  A percentage threshold is        *)
(* compared by cross-multiplication.  np.nan is the value NaN below:       *)
(* arithmetic on it gives NaN and every ordering comparison with it is     *)
(* false, as in IEEE arithmetic.                                           *)
(***************************************************************************)
EXTENDS Integers, Sequences, FiniteSets, TLC

VARIABLES variant,   \* which script runs
          pc,        \* position of the run: "analyze", "done"; batch: "loop", "end"
          inp,       \* the data the downloads hand to analyze_pre_ny
          res,       \* what analyze_pre_ny returned (its locals at return)
          idx,       \* batch: index of the next symbol of symbols_to_analyze
          outputs,   \* batch: what the main loop printed, in order
          datos_cache \* correlation analysis: CryptoCorrelationAnalyzer.datos_cache

vars == <<variant, pc, inp, res, idx, outputs, datos_cache>>

-----------------------------------------------------------------------------
(* np.nan and IEEE-style arithmetic *)

NaN == -999999

isnan(x) == x = NaN

Abs(x) == IF x < 0 THEN -x ELSE x
Min(a, b) == IF a <= b THEN a ELSE b
Max(a, b) == IF a >= b THEN a ELSE b

\* x + y, x - y with NaN propagating
Plus(x, y)  == IF isnan(x) \/ isnan(y) THEN NaN ELSE x + y
Minus(x, y) == IF isnan(x) \/ isnan(y) THEN NaN ELSE x - y
\* atr * (n/2), for the factors 0.5, 1.0, 1.5, 2.0 of the scripts
HalfTimes(n, x) == IF isnan(x) THEN NaN ELSE (n * x) \div 2

\* ordering comparisons: false as soon as one side is NaN
Lt(x, y) == ~isnan(x) /\ ~isnan(y) /\ x < y
Le(x, y) == ~isnan(x) /\ ~isnan(y) /\ x <= y
Gt(x, y) == Lt(y, x)
Ge(x, y) == Le(y, x)

\* safe_float on a scalar: a usable number stays, anything else is NaN
safe_float(x) == IF isnan(x) THEN NaN ELSE x

-----------------------------------------------------------------------------
(* Script variants and their scoring parameters *)

Variants == {"V1", "V2", "V3", "LIQ"}

\* max_score = 5 / 5 / 6 / 7
max_score(v) == CASE v = "V1" -> 5 [] v = "V2" -> 5 [] v = "V3" -> 6 [] v = "LIQ" -> 7

\* points for a detected gap: confidence += 1 (V3: += 2.0)
GapPoints(v) == IF v = "V3" THEN 20 ELSE 10

\* confidence at which an immediate decision is FUERTE
FuerteBound(v) == IF v \in {"V1", "V2"} THEN 35 ELSE 45

\* min_confidence of the gap branches
MinConfidence(v, aligned) ==
    CASE v \in {"V1", "V2"} -> (IF aligned THEN 20 ELSE 25)
      [] v = "V3"           -> 30
      [] v = "LIQ"          -> (IF aligned THEN 30 ELSE 35)

\* confidence a historical-level decision needs
LevelBar(v) == CASE v \in {"V1", "V2"} -> 30 [] v = "V3" -> 35 [] v = "LIQ" -> 40

HasStructure(v) == v # "V1"

-----------------------------------------------------------------------------
(* Daily bars: records [O, H, L, C]; a series is a sequence, oldest first *)

\* df.iloc[-k] of a series d (k >= 1)
ILoc(d, k) == d[Len(d) - k + 1]

\* df.iloc[-n:] : the last n bars (all of them when there are fewer)
Tail_n(d, n) == IF Len(d) <= n THEN d ELSE SubSeq(d, Len(d) - n + 1, Len(d))

\* a pivot that falls back on zero levels instead of reporting an error
calculate_pivot_points_Default(st, d) ==
    IF st = "ok" /\ Len(d) >= 2 /\ ~isnan(ILoc(d, 2).H) /\ ~isnan(ILoc(d, 2).L)
       /\ ~isnan(ILoc(d, 2).C)
    THEN LET PP == (ILoc(d, 2).H + ILoc(d, 2).L + ILoc(d, 2).C) \div 3
         IN  [PP |-> PP, R1 |-> 2 * PP - ILoc(d, 2).L,
              S1 |-> 2 * PP - ILoc(d, 2).H, err |-> "None"]
    ELSE [PP |-> 0, R1 |-> 0, S1 |-> 0, err |-> "None"]

\* pivots with the resistance and the support taken from the wrong extremes
calculate_pivot_points_Swapped(st, d) ==
    LET P == calculate_pivot_points_Default(st, d)
    IN  [PP |-> P.PP, R1 |-> P.S1, S1 |-> P.R1, err |-> P.err]

calculate_pivot_points(st, d) ==
    IF st = "raise"
    THEN [PP |-> NaN, R1 |-> NaN, S1 |-> NaN, err |-> "Error descarga"]
    ELSE IF st = "nocols" \/ Len(d) < 2
    THEN [PP |-> NaN, R1 |-> NaN, S1 |-> NaN, err |-> "Datos insuficientes"]
    ELSE LET H_prev == safe_float(ILoc(d, 2).H)
             L_prev == safe_float(ILoc(d, 2).L)
             C_prev == safe_float(ILoc(d, 2).C)
         IN  IF isnan(H_prev) \/ isnan(L_prev) \/ isnan(C_prev)
             THEN [PP |-> NaN, R1 |-> NaN, S1 |-> NaN, err |-> "Valores invalidos"]
             ELSE LET PP == (H_prev + L_prev + C_prev) \div 3
                  IN  [PP |-> PP, R1 |-> 2 * PP - L_prev,
                       S1 |-> 2 * PP - H_prev, err |-> "None"]

lookback_days == 100

\* the bars of df_1d.iloc[-lookback_days:-2]
History(d) ==
    IF Len(d) < 3 THEN << >>
    ELSE SubSeq(d, Max(1, Len(d) - lookback_days + 1), Len(d) - 2)

SetMin(S) == CHOOSE x \in S : \A y \in S : x <= y
SetMax(S) == CHOOSE x \in S : \A y \in S : x >= y

find_historical_level(d, last_price, is_resistance) ==
    LET h == History(d)
    IN  IF Len(h) = 0 THEN NaN
        ELSE IF is_resistance
        THEN LET relevant_highs == {h[i].H : i \in {j \in 1..Len(h) : Gt(h[j].H, last_price)}}
             IN  IF relevant_highs = {} THEN NaN ELSE SetMin(relevant_highs)
        ELSE LET relevant_lows == {h[i].L : i \in {j \in 1..Len(h) : Lt(h[j].L, last_price)}}
             IN  IF relevant_lows = {} THEN NaN ELSE SetMax(relevant_lows)

\* abs(last_price - level) / last_price < 0.01
StrongLevel(level, last_price) ==
    ~isnan(level) /\ 100 * Abs(last_price - level) < last_price

-----------------------------------------------------------------------------
(* Stable sort of a sequence of records on their field key (Python sorted) *)

RECURSIVE InsertByKey(_, _)
InsertByKey(s, x) ==
    IF s = << >> THEN <<x>>
    ELSE IF Head(s).key <= x.key THEN <<Head(s)>> \o InsertByKey(Tail(s), x)
    ELSE <<x>> \o s

RECURSIVE SortByKey(_)
SortByKey(s) ==
    IF s = << >> THEN << >>
    ELSE InsertByKey(SortByKey(SubSeq(s, 1, Len(s) - 1)), s[Len(s)])

RECURSIVE SelectSeqBy(_, _)
\* the records of s whose field side is w, in order
SelectSeqBy(s, w) ==
    IF s = << >> THEN << >>
    ELSE (IF Head(s).side = w THEN <<Head(s)>> ELSE << >>) \o SelectSeqBy(Tail(s), w)

-----------------------------------------------------------------------------
(* Gap detection *)

BarHasNaN(prev, curr) ==
    \/ isnan(prev.C) \/ isnan(prev.H) \/ isnan(prev.L)
    \/ isnan(curr.O) \/ isnan(curr.H) \/ isnan(curr.L)

\* V1, V2, LIQ: the gap between the previous daily close and the price
detect_cme_gap(d, last_price) ==
    IF Len(d) < 2 THEN [signal |-> "NO_GAP", level |-> NaN]
    ELSE LET gap_level == safe_float(ILoc(d, 2).C)
         IN  IF isnan(gap_level) THEN [signal |-> "NO_GAP", level |-> NaN]
             ELSE IF 1000 * last_price > 1005 * gap_level
             THEN [signal |-> "SHORT_TO_FILL", level |-> gap_level]
             ELSE IF 1000 * last_price < 995 * gap_level
             THEN [signal |-> "LONG_TO_FILL", level |-> gap_level]
             ELSE [signal |-> "NO_GAP", level |-> NaN]

\* some bar among the last k has Low <= level (range(i, 0) with i = -k)
FilledDownLast(d, k, level) == \E j \in 1..k : Le(ILoc(d, j).L, level)
FilledUpLast(d, k, level)   == \E j \in 1..k : Ge(ILoc(d, j).H, level)

\* the entry detect_cme_gap_improved appends for i = -k, as a sequence of 0 or 1
RecentGapAt(d, k, last_price) ==
    IF k + 1 > Len(d) THEN << >>
    ELSE LET prev == ILoc(d, k + 1)
             curr == ILoc(d, k)
         IN  IF BarHasNaN(prev, curr) THEN << >>
             ELSE IF curr.L > prev.H
             THEN IF /\ 1000 * (curr.L - prev.H) > 3 * prev.H
                     /\ ~FilledDownLast(d, k, prev.H)
                     /\ prev.H < last_price
                  THEN << [level |-> prev.H, type |-> "GAP_UP", age_days |-> k,
                           direction |-> "DOWN_TO_FILL",
                           key |-> Abs(prev.H - last_price)] >>
                  ELSE << >>
             ELSE IF curr.H < prev.L
             THEN IF /\ 1000 * (prev.L - curr.H) > 3 * curr.H
                     /\ ~FilledUpLast(d, k, prev.L)
                     /\ prev.L > last_price
                  THEN << [level |-> prev.L, type |-> "GAP_DOWN", age_days |-> k,
                           direction |-> "UP_TO_FILL",
                           key |-> Abs(prev.L - last_price)] >>
                  ELSE << >>
             ELSE << >>

RECURSIVE RecentGapsFrom(_, _, _)
\* for i in range(-k, 0)
RecentGapsFrom(d, k, last_price) ==
    IF k = 0 THEN << >>
    ELSE RecentGapAt(d, k, last_price) \o RecentGapsFrom(d, k - 1, last_price)

recent_days == 7

\* V3: unfilled high/low gaps of the last 7 days, the nearest one decides
detect_cme_gap_improved(d, last_price) ==
    IF Len(d) < 5 THEN [signal |-> "NO_GAP", level |-> NaN]
    ELSE LET recent_gaps == SortByKey(RecentGapsFrom(d, recent_days, last_price))
         IN  IF recent_gaps = << >> THEN [signal |-> "NO_GAP", level |-> NaN]
             ELSE IF recent_gaps[1].direction = "DOWN_TO_FILL"
             THEN [signal |-> "SHORT_TO_FILL", level |-> recent_gaps[1].level]
             ELSE [signal |-> "LONG_TO_FILL", level |-> recent_gaps[1].level]

Strength(bottom, top) ==
    IF 100 * (top - bottom) > 2 * bottom THEN "STRONG"
    ELSE IF 100 * (top - bottom) > bottom THEN "MEDIUM" ELSE "WEAK"

Side(level, current_price) ==
    IF level > current_price THEN "above"
    ELSE IF level < current_price THEN "below" ELSE "none"

\* V3: the gap_info of the pair (r[i-1], r[i]), as a sequence of 0 or 1
ComprehensiveGapAt(r, i, current_price) ==
    LET prev == r[i - 1]
        curr == r[i]
        n    == Len(r)
    IN  IF BarHasNaN(prev, curr) THEN << >>
        ELSE IF curr.L > prev.H
        THEN IF \E j \in i..n : Le(r[j].L, prev.H) THEN << >>
             ELSE << [level |-> (prev.H + curr.L) \div 2, bottom |-> prev.H,
                      top |-> curr.L, type |-> "GAP_UP", age_days |-> n - i + 1,
                      strength |-> Strength(prev.H, curr.L),
                      side |-> Side((prev.H + curr.L) \div 2, current_price),
                      key |-> 0] >>
        ELSE IF curr.H < prev.L
        THEN IF \E j \in i..n : Ge(r[j].H, prev.L) THEN << >>
             ELSE << [level |-> (curr.H + prev.L) \div 2, bottom |-> curr.H,
                      top |-> prev.L, type |-> "GAP_DOWN", age_days |-> n - i + 1,
                      strength |-> Strength(curr.H, prev.L),
                      side |-> Side((curr.H + prev.L) \div 2, current_price),
                      key |-> 0] >>
        ELSE << >>

\* V1, V2, LIQ: open-versus-previous-close gaps of more than 0.5%
HistoricalGapAt(r, i, current_price) ==
    LET prev_close == safe_float(r[i - 1].C)
        curr_open  == safe_float(r[i].O)
        n          == Len(r)
    IN  IF isnan(prev_close) \/ isnan(curr_open) THEN << >>
        ELSE IF 1000 * curr_open > 1005 * prev_close
        THEN IF \E j \in i..n : Le(r[j].L, prev_close) THEN << >>
             ELSE << [level |-> prev_close, bottom |-> prev_close, top |-> prev_close,
                      type |-> "GAP_UP", age_days |-> n - i + 1, strength |-> "NA",
                      side |-> Side(prev_close, current_price), key |-> 0] >>
        ELSE IF 1000 * curr_open < 995 * prev_close
        THEN IF \E j \in i..n : Ge(r[j].H, prev_close) THEN << >>
             ELSE << [level |-> prev_close, bottom |-> prev_close, top |-> prev_close,
                      type |-> "GAP_DOWN", age_days |-> n - i + 1, strength |-> "NA",
                      side |-> Side(prev_close, current_price), key |-> 0] >>
        ELSE << >>

RECURSIVE GapRange(_, _, _, _, _)
\* the gaps of the pairs lo..hi in the order of the loop (the range is
\* halved, so that a window of 120 bars is a shallow evaluation)
GapRange(v, r, lo, hi, current_price) ==
    IF lo > hi THEN << >>
    ELSE IF lo = hi
    THEN (IF v = "V3" THEN ComprehensiveGapAt(r, lo, current_price)
                      ELSE HistoricalGapAt(r, lo, current_price))
    ELSE GapRange(v, r, lo, (lo + hi) \div 2, current_price)
         \o GapRange(v, r, (lo + hi) \div 2 + 1, hi, current_price)

\* for i in range(1, len(df_recent)), 1-based here
GapScan(v, r, i, current_price) == GapRange(v, r, i, Len(r), current_price)

WithKey(s, sign) == [i \in 1..Len(s) |-> [s[i] EXCEPT !.key = sign * s[i].level]]

gap_lookback(v) == IF v = "V3" THEN 120 ELSE 60

\* the unfilled gaps above and below the price, each list nearest first
FindGaps(v, d, current_price) ==
    IF Len(d) < 3 THEN [above |-> << >>, below |-> << >>]
    ELSE LET df_recent == Tail_n(d, gap_lookback(v))
             found     == GapScan(v, df_recent, 2, current_price)
         IN  [above |-> SortByKey(WithKey(SelectSeqBy(found, "above"), 1)),
              below |-> SortByKey(WithKey(SelectSeqBy(found, "below"), -1))]


find_all_gaps_comprehensive(d, current_price) == FindGaps("V3", d, current_price)

find_historical_gaps(d, current_price) == FindGaps("V1", d, current_price)

-----------------------------------------------------------------------------
(* The 5-minute series: row count after dropna, last close, and the values  *)
(* the rolling means come to                                                *)

\* safe_atr: NaN below period + 1 = 15 rows, else the rolling mean of TR
safe_atr(m5) == IF m5.n < 15 THEN NaN ELSE safe_float(m5.atr_mean)

\* check_high_volume: False below period = 20 rows
check_high_volume(m5) == IF m5.n < 20 THEN FALSE ELSE m5.vol_high

-----------------------------------------------------------------------------
(* Technical indicators (1h series for RSI and MACD, daily for EMA200) *)

\* calculate_rsi: NaN below period + 1 rows, else the value of the formula
\* (NaN again when the window has neither gains nor losses)
calculate_rsi(n, value) == IF n < 15 THEN NaN ELSE safe_float(value)

\* a MACD that calls a cross by the current bar alone
calculate_macd_NoHistory(n, d_prev, d_cur) ==
    IF n < 35 THEN [hist |-> NaN, cross |-> "NEUTRAL"]
    ELSE IF d_cur > 0 THEN [hist |-> d_cur, cross |-> "BULLISH_CROSS"]
    ELSE IF d_cur < 0 THEN [hist |-> d_cur, cross |-> "BEARISH_CROSS"]
    ELSE [hist |-> d_cur, cross |-> "NEUTRAL"]

\* calculate_macd on (line - signal) of the previous and of the current bar
calculate_macd(n, d_prev, d_cur) ==
    IF n < 35 THEN [hist |-> NaN, cross |-> "NEUTRAL"]
    ELSE IF d_prev <= 0 /\ d_cur > 0 THEN [hist |-> d_cur, cross |-> "BULLISH_CROSS"]
    ELSE IF d_prev >= 0 /\ d_cur < 0 THEN [hist |-> d_cur, cross |-> "BEARISH_CROSS"]
    ELSE IF d_cur > 0 THEN [hist |-> d_cur, cross |-> "BULLISH"]
    ELSE IF d_cur < 0 THEN [hist |-> d_cur, cross |-> "BEARISH"]
    ELSE [hist |-> d_cur, cross |-> "NEUTRAL"]

calculate_ema(n, value) == IF n < 200 THEN NaN ELSE safe_float(value)

RsiSignal(rsi_4h) ==
    IF isnan(rsi_4h) THEN "NEUTRAL"
    ELSE IF rsi_4h < 30 THEN "OVERSOLD"
    ELSE IF rsi_4h > 70 THEN "OVERBOUGHT"
    ELSE IF rsi_4h <= 40 THEN "BULLISH_ZONE"
    ELSE IF rsi_4h >= 60 THEN "BEARISH_ZONE"
    ELSE "NEUTRAL"

EmaSignal(ema200, last_price) ==
    IF isnan(ema200) THEN "NEUTRAL"
    ELSE IF last_price > ema200
    THEN (IF 100 * (last_price - ema200) > 2 * ema200 THEN "ABOVE_STRONG" ELSE "ABOVE")
    ELSE (IF 100 * (last_price - ema200) < -2 * ema200 THEN "BELOW_STRONG" ELSE "BELOW")

DefaultIndicators ==
    [rsi_4h |-> NaN, rsi_signal |-> "NEUTRAL", macd_histogram |-> NaN,
     macd_signal |-> "NEUTRAL", ema200_1d |-> NaN, ema_signal |-> "NEUTRAL"]

\* i: [h1_st, n1h, rsi, d_prev, d_cur, d1_st, n1d, ema].  A download that
\* raises ends the function with what was set before it (except: pass).
analyze_technical_indicators(i, last_price) ==
    IF i.h1_st = "raise" THEN DefaultIndicators
    ELSE LET rsi_4h == IF i.n1h > 30 THEN calculate_rsi(i.n1h, i.rsi) ELSE NaN
             macd   == IF i.n1h > 30 THEN calculate_macd(i.n1h, i.d_prev, i.d_cur)
                       ELSE [hist |-> NaN, cross |-> "NEUTRAL"]
             ema200 == IF i.d1_st # "raise" /\ i.n1d > 200
                       THEN calculate_ema(i.n1d, i.ema) ELSE NaN
         IN  [rsi_4h |-> rsi_4h, rsi_signal |-> RsiSignal(rsi_4h),
              macd_histogram |-> macd.hist, macd_signal |-> macd.cross,
              ema200_1d |-> ema200, ema_signal |-> EmaSignal(ema200, last_price)]

-----------------------------------------------------------------------------
(* Market structure of the daily series d.  The 20-bar range and the 60-bar *)
(* price trend are computed from the bars; what the detectors find in the   *)
(* volumes and in the RSI of the closes further back is the record          *)
(* f: [vol_dec, bull_div, bear_div] of booleans.                            *)

\* ((High.max() - Low.min()) / Low.min()) * 100 < pct10 / 10 on the last 20 bars
Range20LessThan(d, pct10) ==
    LET recent == Tail_n(d, 20)
        highs  == {recent[i].H : i \in 1..Len(recent)} \ {NaN}
        lows   == {recent[i].L : i \in 1..Len(recent)} \ {NaN}
    IN  /\ highs # {}
        /\ lows # {}
        /\ 1000 * (SetMax(highs) - SetMin(lows)) < pct10 * SetMin(lows)

\* price_trend of the last 60 bars as the pair (change, first close)
PriceTrend(d) == [delta |-> ILoc(d, 1).C - ILoc(d, 60).C, first |-> ILoc(d, 60).C]

\* price_trend < 0 or abs(price_trend) < 0.05
TrendLowOrFlat(t)  == t.delta < 0 \/ 100 * Abs(t.delta) < 5 * t.first
\* price_trend > 0 or abs(price_trend) < 0.05
TrendHighOrFlat(t) == t.delta > 0 \/ 100 * Abs(t.delta) < 5 * t.first

detect_consolidation(d) == Len(d) >= 20 /\ Range20LessThan(d, 50)

\* accumulation_score / distribution_score, in tenths
accumulation_score(d, f) ==
      (IF TrendLowOrFlat(PriceTrend(d)) THEN 10 ELSE 0)
    + (IF f.vol_dec THEN 10 ELSE 0)
    + (IF Range20LessThan(d, 80) THEN 15 ELSE 0)
    + (IF f.bull_div THEN 15 ELSE 0)

distribution_score(d, f) ==
      (IF TrendHighOrFlat(PriceTrend(d)) THEN 10 ELSE 0)
    + (IF f.vol_dec THEN 10 ELSE 0)
    + (IF Range20LessThan(d, 80) THEN 15 ELSE 0)
    + (IF f.bear_div THEN 15 ELSE 0)

\* a phase that calls a score of 2.5 strong
ScorePhase_Early(score, what) ==
    IF score >= 25 THEN "STRONG_" \o what
    ELSE IF score >= 20 THEN "POSSIBLE_" \o what ELSE "NONE"

ScorePhase(score, what) ==
    IF score >= 30 THEN "STRONG_" \o what
    ELSE IF score >= 20 THEN "POSSIBLE_" \o what ELSE "NONE"

detect_accumulation(d, f) ==
    IF Len(d) < 60 THEN [detected |-> FALSE, phase |-> "NONE", score |-> 0]
    ELSE [detected |-> accumulation_score(d, f) >= 20,
          phase |-> ScorePhase(accumulation_score(d, f), "ACCUMULATION"),
          score |-> accumulation_score(d, f)]

detect_distribution(d, f) ==
    IF Len(d) < 60 THEN [detected |-> FALSE, phase |-> "NONE", score |-> 0]
    ELSE [detected |-> distribution_score(d, f) >= 20,
          phase |-> ScorePhase(distribution_score(d, f), "DISTRIBUTION"),
          score |-> distribution_score(d, f)]

\* a test that finds no phase strong
IsStrongPhase_Never(phase) == FALSE

\* 'STRONG' in phase
IsStrongPhase(phase) == phase \in {"STRONG_ACCUMULATION", "STRONG_DISTRIBUTION"}

\* a market structure that sees nothing but the range
ClassifyPhase_RangeOnly(is_consolidating, accum, distrib) ==
    IF is_consolidating
    THEN [primary_phase |-> "PURE_CONSOLIDATION", confidence_adjustment |-> 5]
    ELSE [primary_phase |-> "TRENDING", confidence_adjustment |-> 10]

\* the if / elif chain of analyze_market_structure: primary_phase and
\* confidence_adjustment (in tenths)
ClassifyPhase(is_consolidating, accum, distrib) ==
    IF is_consolidating
    THEN IF accum.detected /\ accum.score > distrib.score
         THEN [primary_phase |-> "ACCUMULATION_IN_RANGE", confidence_adjustment |-> 8]
         ELSE IF distrib.detected /\ distrib.score > accum.score
         THEN [primary_phase |-> "DISTRIBUTION_IN_RANGE", confidence_adjustment |-> 8]
         ELSE [primary_phase |-> "PURE_CONSOLIDATION", confidence_adjustment |-> 5]
    ELSE IF accum.detected /\ ~distrib.detected
    THEN [primary_phase |-> accum.phase,
          confidence_adjustment |-> IF IsStrongPhase(accum.phase) THEN 12 ELSE 11]
    ELSE IF distrib.detected /\ ~accum.detected
    THEN [primary_phase |-> distrib.phase,
          confidence_adjustment |-> IF IsStrongPhase(distrib.phase) THEN 12 ELSE 11]
    ELSE [primary_phase |-> "TRENDING", confidence_adjustment |-> 10]

\* the returned dict: the phase, its multiplier and what the detectors found
analyze_market_structure(d, f) ==
    LET is_consolidating == detect_consolidation(d)
        accum   == detect_accumulation(d, f)
        distrib == detect_distribution(d, f)
        c       == ClassifyPhase(is_consolidating, accum, distrib)
    IN  [primary_phase |-> c.primary_phase,
         confidence_adjustment |-> c.confidence_adjustment,
         is_consolidating |-> is_consolidating,
         accumulation |-> accum, distribution |-> distrib]

\* V1 has no market structure: the confidence is left as it is
NoStructure ==
    [primary_phase |-> "N/A", confidence_adjustment |-> 10,
     is_consolidating |-> FALSE,
     accumulation |-> [detected |-> FALSE, phase |-> "NONE", score |-> 0],
     distribution |-> [detected |-> FALSE, phase |-> "NONE", score |-> 0]]

-----------------------------------------------------------------------------
(* Binance liquidations (LIQ).  A liquidation frame is a sequence of        *)
(* records [price, usd_volume, liq_type], usd_volume in thousands of USD.   *)

\* None of get_liquidations (a frame it returns is never empty)
None == << >>

\* a get_liquidations that hands over whatever rows it holds, failed or not
get_liquidations_Stale(l) == l.data

\* get_liquidations: the frame, or None when the request fails or is empty
get_liquidations(l) ==
    IF l.st = "ok" /\ Len(l.data) > 0 THEN l.data ELSE None

RECURSIVE SumVolume(_, _, _)
\* usd_volume summed over the rows of liq_df near gap_price whose type is in types
SumVolume(liq_df, gap_price, types) ==
    IF Len(liq_df) = 0 THEN 0
    ELSE LET row  == Head(liq_df)
             near == /\ 1000 * row.price >= 996 * gap_price
                     /\ 1000 * row.price <= 1004 * gap_price
         IN  (IF near /\ row.liq_type \in types THEN row.usd_volume ELSE 0)
             + SumVolume(Tail(liq_df), gap_price, types)

\* a confluence that looks at the volume alone, never at who was liquidated
analyze_gap_confluence_VolumeOnly(gap_price, gap_type, liq_df) ==
    LET total_vol == SumVolume(liq_df, gap_price, {"LONG_LIQ", "SHORT_LIQ"})
    IN  [has_confluence |-> total_vol >= 250,
         confidence_boost |-> IF total_vol >= 1000 THEN 20
                              ELSE IF total_vol >= 500 THEN 15
                              ELSE IF total_vol >= 250 THEN 5 ELSE 0]

\* confidence_boost (tenths) and has_confluence
analyze_gap_confluence(gap_price, gap_type, liq_df) ==
    LET total_vol      == SumVolume(liq_df, gap_price, {"LONG_LIQ", "SHORT_LIQ"})
        long_liq_vol   == SumVolume(liq_df, gap_price, {"LONG_LIQ"})
        short_liq_vol  == SumVolume(liq_df, gap_price, {"SHORT_LIQ"})
        dominant_side  == IF 2 * long_liq_vol > 3 * short_liq_vol THEN "LONG_LIQ"
                          ELSE IF 2 * short_liq_vol > 3 * long_liq_vol THEN "SHORT_LIQ"
                          ELSE "MIXED"
        favoured == IF gap_type = "SHORT_TO_FILL" THEN "LONG_LIQ" ELSE "SHORT_LIQ"
        with_vol    == IF gap_type = "SHORT_TO_FILL" THEN long_liq_vol ELSE short_liq_vol
        against_vol == IF gap_type = "SHORT_TO_FILL" THEN short_liq_vol ELSE long_liq_vol
    IN  IF liq_df = None \/ total_vol = 0
        THEN [has_confluence |-> FALSE, confidence_boost |-> 0]
        ELSE IF total_vol >= 1000
        THEN [has_confluence |-> TRUE,
              confidence_boost |-> IF dominant_side = favoured THEN 20
                                   ELSE IF with_vol > against_vol THEN 12 ELSE 5]
        ELSE IF total_vol >= 500
        THEN [has_confluence |-> TRUE,
              confidence_boost |-> IF dominant_side = favoured THEN 15 ELSE 8]
        ELSE IF total_vol >= 250
        THEN [has_confluence |-> TRUE, confidence_boost |-> 5]
        ELSE [has_confluence |-> FALSE, confidence_boost |-> 0]

\* liq_boost of analyze_pre_ny
LiqBoost(l, gap_signal, gap_level) ==
    LET liq_df == get_liquidations(l)
    IN  IF liq_df # None /\ gap_signal # "NO_GAP"
        THEN LET confluence == analyze_gap_confluence(gap_level, gap_signal, liq_df)
             IN  IF confluence.has_confluence THEN confluence.confidence_boost ELSE 0
        ELSE 0

-----------------------------------------------------------------------------
(* Decisions.  A decision is named by the text before its parenthesis; the  *)
(* V3 text "NO_OPERAR (Gap SHORT detectado pero confianza baja ...)" is     *)
(* NO_OPERAR_GAP_SHORT, and likewise for LONG.                              *)

\* "SHORT" in decision
HasSHORT(decision) ==
    decision \in {"SHORT_FUERTE", "SHORT_MODERADO", "SHORT_PENDIENTE",
                  "SHORT_GAP_HISTORICO", "SHORT_RESISTENCIA", "NO_OPERAR_GAP_SHORT"}

\* "LONG" in decision
HasLONG(decision) ==
    decision \in {"LONG_FUERTE", "LONG_MODERADO", "LONG_PENDIENTE",
                  "LONG_GAP_HISTORICO", "LONG_SOPORTE", "NO_OPERAR_GAP_LONG"}

\* "PENDIENTE" in decision
HasPENDIENTE(decision) == decision \in {"SHORT_PENDIENTE", "LONG_PENDIENTE"}

\* decision.endswith("Inmediata)")
EndsInmediata(decision) ==
    decision \in {"SHORT_FUERTE", "SHORT_MODERADO", "LONG_FUERTE", "LONG_MODERADO"}

\* the decision starts with NO_OPERAR
IsNoOperar(decision) ==
    decision \in {"NO_OPERAR", "NO_OPERAR_GAP_SHORT", "NO_OPERAR_GAP_LONG"}

validate_levels(decision, entry_p, sl_p, tp1_p, tp2_p, atr) ==
    IF isnan(entry_p) \/ isnan(atr)
    THEN [entry_p |-> entry_p, sl_p |-> sl_p, tp1_p |-> tp1_p, tp2_p |-> tp2_p]
    ELSE IF HasSHORT(decision)
    THEN LET sl  == IF Le(sl_p, entry_p) THEN entry_p + HalfTimes(3, atr) ELSE sl_p
             tp1 == IF Ge(tp1_p, entry_p) THEN entry_p - HalfTimes(2, atr) ELSE tp1_p
             tp2a == IF Ge(tp2_p, entry_p) THEN entry_p - HalfTimes(4, atr) ELSE tp2_p
             tp2 == IF ~isnan(tp2_p) /\ Ge(tp2a, tp1) THEN tp1 - HalfTimes(2, atr) ELSE tp2a
         IN  [entry_p |-> entry_p, sl_p |-> sl, tp1_p |-> tp1, tp2_p |-> tp2]
    ELSE IF HasLONG(decision)
    THEN LET sl  == IF Ge(sl_p, entry_p) THEN entry_p - HalfTimes(3, atr) ELSE sl_p
             tp1 == IF Le(tp1_p, entry_p) THEN entry_p + HalfTimes(2, atr) ELSE tp1_p
             tp2a == IF Le(tp2_p, entry_p) THEN entry_p + HalfTimes(4, atr) ELSE tp2_p
             tp2 == IF ~isnan(tp2_p) /\ Le(tp2a, tp1) THEN tp1 + HalfTimes(2, atr) ELSE tp2a
         IN  [entry_p |-> entry_p, sl_p |-> sl, tp1_p |-> tp1, tp2_p |-> tp2]
    ELSE [entry_p |-> entry_p, sl_p |-> sl_p, tp1_p |-> tp1_p, tp2_p |-> tp2_p]

\* the TP3 correction that follows validate_levels
FixTp3(decision, tp2_p, tp3_p, atr) ==
    IF HasSHORT(decision) /\ ~isnan(tp3_p)
    THEN (IF Ge(tp3_p, tp2_p) THEN Minus(tp2_p, HalfTimes(2, atr)) ELSE tp3_p)
    ELSE IF HasLONG(decision) /\ ~isnan(tp3_p)
    THEN (IF Le(tp3_p, tp2_p) THEN Plus(tp2_p, HalfTimes(2, atr)) ELSE tp3_p)
    ELSE tp3_p

-----------------------------------------------------------------------------
(* Scoring of one direction, dir = "SHORT" or "LONG" *)

Opposite(dir) == IF dir = "SHORT" THEN "LONG" ELSE "SHORT"

RsiStrong(dir) == IF dir = "SHORT" THEN "OVERBOUGHT" ELSE "OVERSOLD"
RsiZone(dir)   == IF dir = "SHORT" THEN "BEARISH_ZONE" ELSE "BULLISH_ZONE"
MacdCross(dir) == IF dir = "SHORT" THEN "BEARISH_CROSS" ELSE "BULLISH_CROSS"
MacdTrend(dir) == IF dir = "SHORT" THEN "BEARISH" ELSE "BULLISH"
EmaStrong(dir) == IF dir = "SHORT" THEN "BELOW_STRONG" ELSE "ABOVE_STRONG"
EmaSide(dir)   == IF dir = "SHORT" THEN "BELOW" ELSE "ABOVE"

\* gap branches: what each indicator adds to indicator_score (tenths)
RsiPoints(v, dir, rsi_signal) ==
    IF rsi_signal = RsiStrong(dir) THEN 10
    ELSE IF rsi_signal = RsiZone(dir) THEN 5
    ELSE IF v = "V3" THEN -5 ELSE 0

MacdPoints(v, dir, macd_signal) ==
    IF macd_signal = MacdCross(dir) THEN 10
    ELSE IF macd_signal = MacdTrend(dir) THEN 5
    ELSE IF v = "V3" /\ macd_signal \in {MacdCross(Opposite(dir)), MacdTrend(Opposite(dir))}
    THEN -5 ELSE 0

EmaPoints(v, dir, ema_signal) ==
    IF ema_signal = EmaStrong(dir) THEN (IF v = "V3" THEN 5 ELSE 10)
    ELSE IF ema_signal = EmaSide(dir) THEN 5 ELSE 0

\* last_price > PP for SHORT, last_price < PP for LONG
Aligned(dir, last_price, PP) ==
    IF dir = "SHORT" THEN Gt(last_price, PP) ELSE Lt(last_price, PP)

\* what the price side of PP adds to confidence
PivotPoints(v, aligned) == IF aligned THEN 10 ELSE IF v = "V3" THEN -5 ELSE 0

\* abs(last_price - PP) < ATR_TOLERANCE
WithinTolerance(last_price, PP, atr) ==
    IF Gt(atr, 0) THEN 2 * Abs(last_price - PP) < atr
    ELSE 1000 * Abs(last_price - PP) < last_price

\* an activation test that looks at the distance to PP only
Immediate_NearOnly(dir, last_price, PP, atr) == WithinTolerance(last_price, PP, atr)

\* last_price >= PP or within tolerance (SHORT); last_price <= PP or ... (LONG)
Immediate(dir, last_price, PP, atr) ==
    \/ (IF dir = "SHORT" THEN Ge(last_price, PP) ELSE Le(last_price, PP))
    \/ WithinTolerance(last_price, PP, atr)

\* x lies on the stop side of y / on the target side of y
StopSide(dir, x, y)   == IF dir = "SHORT" THEN Gt(x, y) ELSE Lt(x, y)
TargetSide(dir, x, y) == IF dir = "SHORT" THEN Lt(x, y) ELSE Gt(x, y)
\* x moved by delta towards the stop / towards the target
TowardStop(dir, x, delta)   == IF dir = "SHORT" THEN Plus(x, delta) ELSE Minus(x, delta)
TowardTarget(dir, x, delta) == IF dir = "SHORT" THEN Minus(x, delta) ELSE Plus(x, delta)

-----------------------------------------------------------------------------
(* The branches of analyze_pre_ny.  c holds the locals computed before the  *)
(* decision; a branch returns decision, confidence, indicator_score and the *)
(* five levels as they stand before validate_levels.                        *)

NoBranch(decision) ==
    [decision |-> decision, confidence |-> 0, indicator_score |-> 0,
     entry_p |-> NaN, sl_p |-> NaN, tp1_p |-> NaN, tp2_p |-> NaN, tp3_p |-> NaN]

\* gap_signal == "SHORT_TO_FILL" (dir = "SHORT") / "LONG_TO_FILL" (dir = "LONG")
GapBranch(v, dir, c) ==
    LET p       == c.last_price
        stop1   == IF dir = "SHORT" THEN c.R1 ELSE c.S1
        stop2   == IF dir = "SHORT" THEN c.R2_hist ELSE c.S2_hist
        far     == IF dir = "SHORT" THEN c.S2_hist ELSE c.R2_hist
        targets == IF dir = "SHORT" THEN c.gaps_below ELSE c.gaps_above
        sl_p    == IF StopSide(dir, stop1, p) THEN stop1
                   ELSE IF StopSide(dir, stop2, p) THEN stop2
                   ELSE TowardStop(dir, p, HalfTimes(3, c.atr))
        tp1_p   == c.gap_level
        tp2_p   == IF dir = "SHORT" THEN c.S1 ELSE c.R1
        Valid(g) == /\ v = "V3" => g.strength \in {"STRONG", "MEDIUM"}
                    /\ TargetSide(dir, g.level, tp2_p)
        valid_gaps == SelectSeq(targets, Valid)
        tp3_p   == IF valid_gaps # << >> THEN valid_gaps[1].level
                   ELSE IF TargetSide(dir, far, tp2_p) THEN far
                   ELSE TowardTarget(dir, tp2_p, HalfTimes(4, c.atr))
        aligned == Aligned(dir, p, c.PP)
        indicator_score == RsiPoints(v, dir, c.ind.rsi_signal)
                         + MacdPoints(v, dir, c.ind.macd_signal)
                         + EmaPoints(v, dir, c.ind.ema_signal)
        confidence == GapPoints(v) + PivotPoints(v, aligned) + indicator_score
                    + (IF c.high_volume THEN 10 ELSE 0)
                    + (IF v = "LIQ" THEN c.liq_boost ELSE 0)
        enough  == /\ confidence >= MinConfidence(v, aligned)
                   /\ v = "V3" => indicator_score >= 0
        now     == Immediate(dir, p, c.PP, c.atr)
    IN  [decision |-> IF enough
                      THEN (IF now
                            THEN (IF confidence >= FuerteBound(v)
                                  THEN dir \o "_FUERTE" ELSE dir \o "_MODERADO")
                            ELSE dir \o "_PENDIENTE")
                      ELSE IF v = "V3" THEN "NO_OPERAR_GAP_" \o dir ELSE "NO_OPERAR",
         confidence |-> confidence, indicator_score |-> indicator_score,
         entry_p |-> IF enough THEN (IF now THEN p ELSE c.PP) ELSE NaN,
         sl_p |-> sl_p, tp1_p |-> tp1_p, tp2_p |-> tp2_p, tp3_p |-> tp3_p]

\* abs(gaps[0]['level'] - last_price) / last_price < 0.02
NearGap(gaps, last_price) ==
    gaps # << >> /\ 100 * Abs(gaps[1].level - last_price) < 2 * last_price

\* V3, NO_GAP: the price is near a historical gap above (SHORT) or below (LONG)
HistoricGapBranch(dir, c) ==
    LET p      == c.last_price
        near   == IF dir = "SHORT" THEN c.gaps_above ELSE c.gaps_below
        beyond == IF dir = "SHORT" THEN c.gaps_below ELSE c.gaps_above
        sl_p   == IF dir = "SHORT" THEN Plus(near[1].top, HalfTimes(1, c.atr))
                  ELSE Minus(near[1].bottom, HalfTimes(1, c.atr))
        tp1_p  == IF TargetSide(dir, c.PP, p) THEN c.PP
                  ELSE TowardTarget(dir, p, HalfTimes(4, c.atr))
        tp3_p  == IF beyond # << >> THEN beyond[1].level
                  ELSE IF dir = "SHORT" THEN c.S2_hist ELSE c.R2_hist
        indicator_score ==
              (IF c.ind.rsi_signal \in {RsiStrong(dir), RsiZone(dir)} THEN 10 ELSE 0)
            + (IF c.ind.macd_signal \in {MacdCross(dir), MacdTrend(dir)} THEN 10 ELSE 0)
        confidence == 15 + indicator_score
    IN  [decision |-> IF confidence >= 30 THEN dir \o "_GAP_HISTORICO" ELSE "NO_OPERAR",
         confidence |-> confidence, indicator_score |-> indicator_score,
         entry_p |-> IF confidence >= 30 THEN p ELSE NaN,
         sl_p |-> sl_p, tp1_p |-> tp1_p,
         tp2_p |-> IF dir = "SHORT" THEN c.S1 ELSE c.R1, tp3_p |-> tp3_p]

\* strong_resistance and last_price >= R2_hist / strong_support and last_price <= S2_hist
AtLevel(dir, c) ==
    IF dir = "SHORT" THEN c.strong_resistance /\ Ge(c.last_price, c.R2_hist)
    ELSE c.strong_support /\ Le(c.last_price, c.S2_hist)

\* NO_GAP: the price has reached a historical resistance (SHORT) or support (LONG)
LevelBranch(v, dir, c) ==
    LET p      == c.last_price
        level  == IF dir = "SHORT" THEN c.R2_hist ELSE c.S2_hist
        far    == IF dir = "SHORT" THEN c.S2_hist ELSE c.R2_hist
        tp2_p  == IF dir = "SHORT" THEN c.S1 ELSE c.R1
        indicator_score ==
            IF v = "V3"
            THEN (IF c.ind.rsi_signal \in {RsiStrong(dir), RsiZone(dir)} THEN 10 ELSE 0)
               + (IF c.ind.macd_signal \in {MacdCross(dir), MacdTrend(dir)} THEN 10 ELSE 0)
            ELSE RsiPoints(v, dir, c.ind.rsi_signal)
               + MacdPoints(v, dir, c.ind.macd_signal)
               + EmaPoints(v, dir, c.ind.ema_signal)
        confidence == 15
                    + (IF v # "V3" /\ Aligned(dir, p, c.PP) THEN 10 ELSE 0)
                    + indicator_score
                    + (IF c.high_volume THEN 10 ELSE 0)
                    + (IF v = "LIQ" THEN c.liq_boost ELSE 0)
        name   == IF dir = "SHORT" THEN "SHORT_RESISTENCIA" ELSE "LONG_SOPORTE"
    IN  [decision |-> IF confidence >= LevelBar(v) THEN name ELSE "NO_OPERAR",
         confidence |-> confidence, indicator_score |-> indicator_score,
         entry_p |-> IF confidence >= LevelBar(v) THEN p ELSE NaN,
         sl_p |-> TowardStop(dir, level, HalfTimes(2, c.atr)),
         tp1_p |-> c.PP, tp2_p |-> tp2_p,
         tp3_p |-> IF ~isnan(far) THEN far
                   ELSE TowardTarget(dir, tp2_p, HalfTimes(4, c.atr))]

\* the if / elif chain on gap_signal
Decide(v, c) ==
    IF c.gap_signal = "SHORT_TO_FILL" THEN GapBranch(v, "SHORT", c)
    ELSE IF c.gap_signal = "LONG_TO_FILL" THEN GapBranch(v, "LONG", c)
    ELSE IF v = "V3" /\ NearGap(c.gaps_above, c.last_price) THEN HistoricGapBranch("SHORT", c)
    ELSE IF v = "V3" /\ NearGap(c.gaps_below, c.last_price) THEN HistoricGapBranch("LONG", c)
    ELSE IF AtLevel("SHORT", c) THEN LevelBranch(v, "SHORT", c)
    ELSE IF AtLevel("LONG", c) THEN LevelBranch(v, "LONG", c)
    ELSE NoBranch("NO_OPERAR")

-----------------------------------------------------------------------------
(* analyze_pre_ny.  The input i is what the downloads hand over:            *)
(*   i.m5  = [st, n, last_close, atr_mean, vol_high]   5-minute frame       *)
(*   i.d1  = [st, n_old, bars]                         daily frame          *)
(*   i.ind = [h1_st, n1h, rsi, d_prev, d_cur, d1_st, n1d, ema]              *)
(*   i.ms  = [vol_dec, bull_div, bear_div]                                  *)
(*   i.liq = [st, data]                                Binance request      *)
(* st is "ok", "raise" (the download raises), "empty" or "nocols".          *)

\* The daily frame: d1.bars are its last bars; the d1.n_old bars before them
\* repeat the oldest of those; the volumes and the path of the older closes
\* inside that bar's range are known through i.ms only.
Daily(d1) ==
    [k \in 1..(d1.n_old + Len(d1.bars)) |->
        IF k <= d1.n_old THEN d1.bars[1] ELSE d1.bars[k - d1.n_old]]

\* confidence_pct = min(100, (confidence / max_score) * 100), as its numerator
\* over max: confidence is held in hundredths of a point once multiplied by
\* confidence_adjustment, so the percentage is confidence / max
ConfidencePct_NoClamp(confidence, max) == confidence

ConfidencePct(confidence, max) == Min(100 * max, confidence)

ErrorResult(text) == [kind |-> "error", error |-> text]

\* "Gap/Nivel" of the score breakdown (tenths)
gap_level_points(v, gap_signal, strong_resistance, strong_support) ==
    IF gap_signal # "NO_GAP" THEN (IF v = "V3" THEN 20 ELSE 10)
    ELSE IF strong_resistance \/ strong_support THEN 15 ELSE 0

\* "Estructura" of the score breakdown (tenths); decision.startswith("SHORT")
\* is a decision with SHORT that is not a NO_OPERAR
structure_points(gap_signal, decision, last_price, PP) ==
    IF \/ gap_signal = "SHORT_TO_FILL" /\ Gt(last_price, PP)
       \/ gap_signal = "LONG_TO_FILL" /\ Lt(last_price, PP)
       \/ HasSHORT(decision) /\ ~IsNoOperar(decision) /\ Gt(last_price, PP)
       \/ HasLONG(decision) /\ ~IsNoOperar(decision) /\ Lt(last_price, PP)
    THEN 10 ELSE 0

\* the report: the locals of analyze_pre_ny that its f-string prints
Report(v, i, d, piv, last_price) ==
    LET atr  == safe_atr(i.m5)
        gap  == IF v = "V3" THEN detect_cme_gap_improved(d, last_price)
                ELSE detect_cme_gap(d, last_price)
        gaps == IF v = "V3" THEN find_all_gaps_comprehensive(d, last_price)
                ELSE find_historical_gaps(d, last_price)
        R2_hist == find_historical_level(d, last_price, TRUE)
        S2_hist == find_historical_level(d, last_price, FALSE)
        ind  == analyze_technical_indicators(i.ind, last_price)
        market_structure ==
            IF HasStructure(v) THEN analyze_market_structure(d, i.ms)
            ELSE NoStructure
        c == [last_price |-> last_price, atr |-> atr,
              high_volume |-> check_high_volume(i.m5),
              PP |-> piv.PP, R1 |-> piv.R1, S1 |-> piv.S1,
              gap_signal |-> gap.signal, gap_level |-> gap.level,
              gaps_above |-> gaps.above, gaps_below |-> gaps.below,
              R2_hist |-> R2_hist, S2_hist |-> S2_hist,
              strong_resistance |-> StrongLevel(R2_hist, last_price),
              strong_support |-> StrongLevel(S2_hist, last_price),
              ind |-> ind,
              liq_boost |-> IF v = "LIQ" THEN LiqBoost(i.liq, gap.signal, gap.level) ELSE 0]
        b == Decide(v, c)
        lv == validate_levels(b.decision, b.entry_p, b.sl_p, b.tp1_p, b.tp2_p, atr)
        tp3_p == FixTp3(b.decision, lv.tp2_p, b.tp3_p, atr)
        confidence == b.confidence * market_structure.confidence_adjustment
    IN  [kind |-> "report", decision |-> b.decision,
         confidence_before_structure |-> b.confidence,
         confidence_adjustment |-> market_structure.confidence_adjustment,
         confidence |-> confidence,
         pct_num |-> ConfidencePct(confidence, max_score(v)),
         max_score |-> max_score(v),
         indicator_score |-> b.indicator_score,
         gap_level_points |->
             gap_level_points(v, gap.signal, c.strong_resistance, c.strong_support),
         structure_points |-> structure_points(gap.signal, b.decision, last_price, piv.PP),
         entry_p |-> lv.entry_p, sl_p |-> lv.sl_p, tp1_p |-> lv.tp1_p,
         tp2_p |-> lv.tp2_p, tp3_p |-> tp3_p,
         entry_display |-> IF (HasPENDIENTE(b.decision) \/ EndsInmediata(b.decision))
                              /\ ~isnan(lv.entry_p) THEN lv.entry_p ELSE NaN,
         last_price |-> last_price, atr |-> atr, high_volume |-> c.high_volume,
         PP |-> piv.PP, R1 |-> piv.R1, S1 |-> piv.S1,
         gap_signal |-> gap.signal, gap_level |-> gap.level,
         R2_hist |-> R2_hist, S2_hist |-> S2_hist,
         primary_phase |-> market_structure.primary_phase,
         is_consolidating |-> market_structure.is_consolidating,
         accumulation |-> market_structure.accumulation,
         distribution |-> market_structure.distribution,
         rsi_4h |-> ind.rsi_4h, rsi_signal |-> ind.rsi_signal,
         macd_histogram |-> ind.macd_histogram, macd_signal |-> ind.macd_signal,
         ema200_1d |-> ind.ema200_1d, ema_signal |-> ind.ema_signal,
         liq_boost |-> c.liq_boost]

analyze_pre_ny(v, i) ==
    IF i.m5.st = "raise" THEN ErrorResult("Error de Conexion/API (5m)")
    ELSE IF i.m5.st \in {"empty", "nocols"} THEN ErrorResult("Error de Datos 5m")
    ELSE LET d   == IF i.d1.st = "ok" THEN Daily(i.d1) ELSE << >>
             piv == calculate_pivot_points(i.d1.st, d)
         IN  IF piv.err # "None" THEN ErrorResult("Error de Pivotes (1D)")
             ELSE IF i.m5.n < 3 \/ isnan(piv.PP) THEN ErrorResult("Datos insuficientes")
             ELSE IF isnan(safe_float(i.m5.last_close))
             THEN ErrorResult("Error al extraer precio/tiempo")
             ELSE Report(v, i, d, piv, safe_float(i.m5.last_close))

-----------------------------------------------------------------------------
(* Inputs of the scoring specification: a few daily frames with the prices  *)
(* that put each decision branch within reach, and every indicator reading  *)

Bar(o, h, l, c) == [O |-> o, H |-> h, L |-> l, C |-> c]

B1 == Bar(5700, 5880, 5700, 5880)     \* PP 5820, R1 5940, S1 5760
B2 == Bar(5940, 6000, 5940, 5976)     \* PP 5972, R1 6004, S1 5944
B3 == Bar(6024, 6060, 6024, 6024)     \* PP 6036, R1 6048, S1 6012
B4 == Bar(6120, 6300, 6120, 6300)     \* PP 6240, R1 6360, S1 6180
WideDown == Bar(6000, 6300, 5700, 5760)   \* PP 5920, R1 6140, S1 5540
WideUp   == Bar(6000, 6300, 5700, 6240)   \* PP 6080, R1 6460, S1 5860
BadBar   == Bar(NaN, NaN, NaN, NaN)
WideHigh == Bar(6024, 6300, 5940, 6240)   \* PP 6160, R1 6380, S1 6020

\* number of older daily bars of a long frame
OldBars == 60

\* older bars of a frame long enough for detect_consolidation only
MidBars == 20

\* [bars, price]: the last daily bars and the last 5-minute close
DailyCases ==
    { [bars |-> <<B2, B2, B2, B2, B3>>, price |-> 6030],
      [bars |-> <<B2, B2, B2, B2, B3>>, price |-> 5940],
      [bars |-> <<B3, B3, B3, B3, B2>>, price |-> 5990],
      [bars |-> <<B3, B3, B3, B3, B2>>, price |-> 6056],
      [bars |-> <<B1, B1, B1, B4, B4>>, price |-> 6130],
      [bars |-> <<B4, B4, B4, B1, B1>>, price |-> 5900],
      [bars |-> <<B2, B2, B2, WideDown, B2>>, price |-> 5800],
      [bars |-> <<B2, B2, B2, WideUp, B2>>, price |-> 6200],
      [bars |-> <<B2, B2, B2, B2, B2>>, price |-> 5976],
      [bars |-> <<B1, WideHigh, B3, WideHigh, B3>>, price |-> 6170] }

\* 5-minute frames: too short for ATR, too short for the volume mean, full
M5Cases ==
    { [n |-> 10, atr_mean |-> 12, vol_high |-> TRUE],
      [n |-> 18, atr_mean |-> 12, vol_high |-> TRUE],
      [n |-> 25, atr_mean |-> 12, vol_high |-> FALSE],
      [n |-> 25, atr_mean |-> 120, vol_high |-> TRUE] }

RsiValues == {NaN, 20, 35, 50, 65, 80}

\* (line - signal) of the previous and of the current bar
MacdPairs == {<<-1, 1>>, <<1, -1>>, <<1, 1>>, <<-1, -1>>, <<0, 0>>}

EmaValues == {NaN, 5400, 5960, 6600}

IndCases ==
    { [h1_st |-> "ok", n1h |-> 40, rsi |-> r, d_prev |-> m[1], d_cur |-> m[2],
       d1_st |-> "ok", n1d |-> 250, ema |-> e]
        : r \in RsiValues, m \in MacdPairs, e \in EmaValues }
    \cup
    { [h1_st |-> "ok", n1h |-> n, rsi |-> r, d_prev |-> 1, d_cur |-> 1,
       d1_st |-> st, n1d |-> 150, ema |-> 5400]
        : r \in {NaN, 80}, n \in {20, 32}, st \in {"ok", "raise"} }
    \cup
    { [h1_st |-> "raise", n1h |-> 40, rsi |-> 80, d_prev |-> 1, d_cur |-> 1,
       d1_st |-> "ok", n1d |-> 250, ema |-> 5400] }

DefaultMs == [vol_dec |-> FALSE, bull_div |-> FALSE, bear_div |-> FALSE]

\* the findings a long frame ending in bars can have: a bullish divergence
\* needs the close of bar -2 below an earlier close, a bearish one above
MsCases(bars) ==
    { f \in [vol_dec : BOOLEAN, bull_div : BOOLEAN, bear_div : BOOLEAN] :
        /\ f.bull_div => ILoc(bars, 2).C < bars[1].H
        /\ f.bear_div => ILoc(bars, 2).C > bars[1].L }

\* the indicator readings tried on the long frames
IndCore ==
    { [h1_st |-> "ok", n1h |-> 40, rsi |-> r, d_prev |-> m, d_cur |-> m,
       d1_st |-> "ok", n1d |-> 250, ema |-> e]
        : r \in {NaN, 20, 80}, m \in {-1, 0, 1}, e \in {NaN, 5400} }

Liq(price, usd_volume, liq_type) ==
    [price |-> price, usd_volume |-> usd_volume, liq_type |-> liq_type]

NoLiq == [st |-> "ok", data |-> << >>]

LiqCases ==
    { NoLiq,
      [st |-> "error", data |-> <<Liq(5976, 1200, "LONG_LIQ")>>],
      [st |-> "ok", data |-> <<Liq(5976, 1200, "LONG_LIQ"), Liq(6024, 300, "SHORT_LIQ")>>],
      [st |-> "ok", data |-> <<Liq(6000, 400, "SHORT_LIQ"), Liq(5880, 200, "LONG_LIQ")>>] }

LiqFor(v) == IF v = "LIQ" THEN LiqCases ELSE {NoLiq}

StructureVariants == {v \in Variants : HasStructure(v)}

DefaultInd ==
    [h1_st |-> "ok", n1h |-> 40, rsi |-> 50, d_prev |-> 0, d_cur |-> 0,
     d1_st |-> "ok", n1d |-> 250, ema |-> NaN]

Input(m5st, m5, price, d1st, n_old, bars, ind, ms, liq) ==
    [m5  |-> [st |-> m5st, n |-> m5.n, last_close |-> price,
              atr_mean |-> m5.atr_mean, vol_high |-> m5.vol_high],
     d1  |-> [st |-> d1st, n_old |-> n_old, bars |-> bars],
     ind |-> ind, ms |-> ms, liq |-> liq]

FullM5 == [n |-> 25, atr_mean |-> 12, vol_high |-> TRUE]

\* inputs that lack something analyze_pre_ny requires
MissingInputs ==
    { Input(st, FullM5, 6030, "ok", 0, <<B2, B2, B2, B2, B3>>, DefaultInd, DefaultMs, NoLiq)
        : st \in {"raise", "empty", "nocols"} }
    \cup
    { Input("ok", FullM5, 6030, st, 0, << >>, DefaultInd, DefaultMs, NoLiq)
        : st \in {"raise", "empty", "nocols"} }
    \cup
    { Input("ok", FullM5, 6030, "ok", 0, bars, DefaultInd, DefaultMs, NoLiq)
        : bars \in { <<B2>>, <<B2, BadBar, B3>>,
                     <<B2, Bar(5940, NaN, 5940, 5976), B3>>,
                     <<B2, Bar(5940, 6000, NaN, 5976), B3>>,
                     <<B2, Bar(5940, 6000, 5940, NaN), B3>> } }
    \cup
    { Input("ok", [n |-> n, atr_mean |-> 12, vol_high |-> FALSE], 6030, "ok", 0,
            <<B2, B2, B2, B2, B3>>, DefaultInd, DefaultMs, NoLiq) : n \in {0, 2} }
    \cup
    { Input("ok", FullM5, NaN, "ok", 0, <<B2, B2, B2, B2, B3>>, DefaultInd, DefaultMs, NoLiq) }

-----------------------------------------------------------------------------
(* One run of analyze_pre_ny on one symbol *)

Start(v, i) ==
    /\ variant = v
    /\ pc = "analyze"
    /\ inp = i
    /\ res = [kind |-> "none"]
    /\ idx = 0
    /\ outputs = << >>
    /\ datos_cache = << >>

\* short daily frames with every indicator reading, long frames with every
\* market-structure finding, and the inputs that lack something
Init ==
    \/ \E v \in Variants, i \in MissingInputs : Start(v, i)
    \/ \E v \in Variants, dc \in DailyCases, m5 \in M5Cases, ind \in IndCases :
         \E liq \in LiqFor(v) :
            Start(v, Input("ok", m5, dc.price, "ok", 0, dc.bars, ind, DefaultMs, liq))
    \/ \E v \in StructureVariants, dc \in DailyCases, m5 \in M5Cases, ind \in IndCore :
         \E ms \in MsCases(dc.bars) :
            Start(v, Input("ok", m5, dc.price, "ok", OldBars, dc.bars, ind, ms, NoLiq))
    \/ \E v \in StructureVariants, dc \in DailyCases :
            Start(v, Input("ok", FullM5, dc.price, "ok", MidBars, dc.bars, DefaultInd,
                           DefaultMs, NoLiq))

AnalyzePreNY ==
    /\ pc = "analyze"
    /\ res' = analyze_pre_ny(variant, inp)
    /\ pc' = "done"
    /\ UNCHANGED <<variant, inp, idx, outputs, datos_cache>>

Next == AnalyzePreNY

Spec == Init /\ [][Next]_vars

-----------------------------------------------------------------------------
(* Properties of one run *)

Reported == pc = "done" /\ res.kind = "report"

\* the direction of a trade decision
IsShortTrade == HasSHORT(res.decision) /\ ~IsNoOperar(res.decision)
IsLongTrade  == HasLONG(res.decision) /\ ~IsNoOperar(res.decision)

\* C1: every trade signal of V3 (a decision other than NO_OPERAR) has
\* strictly ordered levels after validation: SL > entry > TP1 > TP2 > TP3 for
\* SHORT and SL < entry < TP1 < TP2 < TP3 for LONG
C1_LevelsOrdered ==
    Reported /\ variant = "V3" =>
        /\ IsShortTrade =>
             /\ Gt(res.sl_p, res.entry_p)
             /\ Gt(res.entry_p, res.tp1_p)
             /\ Gt(res.tp1_p, res.tp2_p)
             /\ Gt(res.tp2_p, res.tp3_p)
        /\ IsLongTrade =>
             /\ Lt(res.sl_p, res.entry_p)
             /\ Lt(res.entry_p, res.tp1_p)
             /\ Lt(res.tp1_p, res.tp2_p)
             /\ Lt(res.tp2_p, res.tp3_p)

\* C2: V2 takes the phase multiplier into account in the decision: a gap
\* signal with raw confidence 3.0 of 5 in PURE_CONSOLIDATION is reported with
\* 30% and NO_OPERAR, and no trade decision on a gap is reported with a final
\* confidence below the lowest actionable threshold (2.0 points)
C2_PhaseDecides ==
    Reported /\ variant = "V2" /\ res.gap_signal # "NO_GAP" =>
        /\ (res.primary_phase = "PURE_CONSOLIDATION"
              /\ res.confidence_before_structure = 30)
             => (res.pct_num = 30 * res.max_score /\ IsNoOperar(res.decision))
        /\ ~IsNoOperar(res.decision) => res.confidence >= 200

\* C3: the confidence percentage of every report lies in [0, 100]
C3_PctInRange ==
    Reported => 0 <= res.pct_num /\ res.pct_num <= 100 * res.max_score

\* a report whose adjusted score is above max_score, so that the clamp acts
C3_Witness ==
    Reported /\ res.confidence > 100 * res.max_score /\ res.pct_num = 100 * res.max_score

\* C4: the raw confidence accumulated before the phase multiplier never
\* exceeds max_score
C4_RawWithinMax ==
    Reported => res.confidence_before_structure <= 10 * res.max_score

\* a required input is missing: the daily download fails or has fewer than 2
\* bars, the 5-minute download fails or is empty, or the last close is invalid
MissingRequired(i) ==
    \/ i.d1.st # "ok"
    \/ i.d1.n_old + Len(i.d1.bars) < 2
    \/ i.m5.st # "ok"
    \/ i.m5.n = 0
    \/ isnan(i.m5.last_close)

ErrorTexts ==
    {"Error de Conexion/API (5m)", "Error de Datos 5m", "Error de Pivotes (1D)",
     "Datos insuficientes", "Error al extraer precio/tiempo"}

\* C5: with a required input missing analyze_pre_ny returns one of its error
\* strings and nothing else: no decision, no confidence, no level
C5_MissingInputIsError ==
    pc = "done" /\ MissingRequired(inp) =>
        /\ res.kind = "error"
        /\ DOMAIN res = {"kind", "error"}
        /\ res.error \in ErrorTexts

\* a run on a single daily bar ended in the pivot error
C5_Witness ==
    /\ pc = "done"
    /\ inp.d1.st = "ok" /\ Len(inp.d1.bars) = 1 /\ inp.m5.st = "ok"
    /\ res.kind = "error" /\ res.error = "Error de Pivotes (1D)"

\* the liquidation request failed or came back empty
LiqFailed(l) == l.st # "ok" \/ Len(l.data) = 0

\* C7: when the liquidation request of LIQ fails or returns no data the boost
\* is 0 and the run ends exactly as a run on no liquidation data does
C7_LiqFailureIsNoBoost ==
    pc = "done" /\ variant = "LIQ" /\ LiqFailed(inp.liq) =>
        /\ res = analyze_pre_ny("LIQ", [inp EXCEPT !.liq = NoLiq])
        /\ (res.kind = "report" => res.liq_boost = 0)

\* a trade decision of LIQ reached although the request failed
C7_Witness ==
    /\ Reported /\ variant = "LIQ"
    /\ inp.liq.st = "error"
    /\ res.gap_signal # "NO_GAP"
    /\ ~IsNoOperar(res.decision)

\* the direction a gap signal trades in
GapDir(gap_signal) == IF gap_signal = "SHORT_TO_FILL" THEN "SHORT" ELSE "LONG"

\* C8: an indicator without data (RSI, MACD or EMA200 is NaN) changes the
\* confidence of a gap signal by exactly zero: indicator_score is the sum of
\* the points of the indicators that have a value
C8_NaNAddsNothing ==
    Reported /\ res.gap_signal # "NO_GAP" =>
        res.indicator_score =
              (IF isnan(res.rsi_4h) THEN 0
               ELSE RsiPoints(variant, GapDir(res.gap_signal), res.rsi_signal))
            + (IF isnan(res.macd_histogram) THEN 0
               ELSE MacdPoints(variant, GapDir(res.gap_signal), res.macd_signal))
            + (IF isnan(res.ema200_1d) THEN 0
               ELSE EmaPoints(variant, GapDir(res.gap_signal), res.ema_signal))

\* the minimum of the gap branch is met
MeetsMinimum ==
    LET aligned == IF res.gap_signal = "SHORT_TO_FILL" THEN res.last_price > res.PP
                   ELSE res.last_price < res.PP
    IN  res.confidence_before_structure >=
            (CASE variant \in {"V1", "V2"} -> (IF aligned THEN 20 ELSE 25)
               [] variant = "V3" -> 30
               [] variant = "LIQ" -> (IF aligned THEN 30 ELSE 35))

\* FUERTE for a confidence at or above 3.5 (max 5) or 4.5 (max 6 and 7),
\* MODERADO below
StrengthAsStated ==
    LET strong == res.confidence_before_structure >=
                      (IF res.max_score = 5 THEN 35 ELSE 45)
    IN  res.decision \in (IF strong THEN {"SHORT_FUERTE", "LONG_FUERTE"}
                          ELSE {"SHORT_MODERADO", "LONG_MODERADO"})

\* C9 as stated: a gap signal that meets the minimum is decided immediately
\* (entry = price) when the price is at or within 0.5 x ATR of PP, and is
\* PENDIENTE with entry = PP otherwise
C9_AsStated ==
    Reported /\ res.gap_signal # "NO_GAP" /\ MeetsMinimum =>
        IF Le(2 * Abs(res.last_price - res.PP), res.atr)
        THEN EndsInmediata(res.decision) /\ res.entry_p = res.last_price
             /\ StrengthAsStated
        ELSE HasPENDIENTE(res.decision) /\ res.entry_p = res.PP

\* the price is on the far side of PP for the signal, or strictly within the
\* tolerance: 0.5 x ATR, or 0.1% of the price when ATR is NaN or not positive
ActivatesNow ==
    \/ (IF res.gap_signal = "SHORT_TO_FILL" THEN res.last_price >= res.PP
        ELSE res.last_price <= res.PP)
    \/ (IF Gt(res.atr, 0) THEN 2 * Abs(res.last_price - res.PP) < res.atr
        ELSE 1000 * Abs(res.last_price - res.PP) < res.last_price)

\* C9: a gap signal that meets the minimum (in V3 also with indicator_score
\* not negative) is decided immediately with entry = price when the price has
\* reached PP from the signal's side or is strictly within the tolerance of
\* it, FUERTE from 3.5 (V1, V2) or 4.5 (V3, LIQ) points on and MODERADO
\* below; otherwise it is PENDIENTE with entry = PP
C9_Activation ==
    Reported /\ res.gap_signal # "NO_GAP" /\ MeetsMinimum
      /\ (variant = "V3" => res.indicator_score >= 0) =>
        IF ActivatesNow
        THEN EndsInmediata(res.decision) /\ res.entry_p = res.last_price
             /\ StrengthAsStated
        ELSE HasPENDIENTE(res.decision) /\ res.entry_p = res.PP

\* an immediate decision taken more than 0.5 x ATR away from PP
C9_Witness ==
    /\ Reported /\ res.gap_signal # "NO_GAP"
    /\ EndsInmediata(res.decision)
    /\ Gt(2 * Abs(res.last_price - res.PP), res.atr)

\* the confidence the historical-level branch of direction dir computes
LevelConfidence(dir) ==
    LevelBranch(variant, dir,
        [last_price |-> res.last_price, atr |-> res.atr, PP |-> res.PP,
         R1 |-> res.R1, S1 |-> res.S1, R2_hist |-> res.R2_hist,
         S2_hist |-> res.S2_hist, high_volume |-> res.high_volume,
         liq_boost |-> res.liq_boost,
         ind |-> [rsi_signal |-> res.rsi_signal, macd_signal |-> res.macd_signal,
                  ema_signal |-> res.ema_signal]]).confidence

\* V3 only: a historical gap within 2% of the price takes the NO_GAP case
NearHistoricGap ==
    /\ variant = "V3"
    /\ LET gaps == find_all_gaps_comprehensive(Daily(inp.d1), res.last_price)
       IN  NearGap(gaps.above, res.last_price) \/ NearGap(gaps.below, res.last_price)

\* C10: with no gap signal (and, in V3, no historical gap within 2%), a price
\* within 1% of the resistance found by find_historical_level and a
\* confidence at the bar give SHORT_RESISTENCIA, and likewise LONG_SOPORTE at
\* a support
C10_LevelDecision ==
    Reported /\ res.gap_signal = "NO_GAP" /\ ~NearHistoricGap =>
        /\ (StrongLevel(res.R2_hist, res.last_price)
              /\ LevelConfidence("SHORT") >= LevelBar(variant))
             => res.decision = "SHORT_RESISTENCIA"
        /\ (~StrongLevel(res.R2_hist, res.last_price)
              /\ StrongLevel(res.S2_hist, res.last_price)
              /\ LevelConfidence("LONG") >= LevelBar(variant))
             => res.decision = "LONG_SOPORTE"

-----------------------------------------------------------------------------
(* The batch run of __main__: for s in symbols_to_analyze, print the result *)
(* of analyze_pre_ny(s), or the exception it raised                         *)

symbols_to_analyze == <<"BTC-USD", "ETH-USD", "SOL-USD", "BNB-USD", "XRP-USD">>

\* what the downloads of one symbol may hand over in a batch run
BatchInputs ==
    { Input("ok", FullM5, 6030, d1st, 0, bars, DefaultInd, DefaultMs, NoLiq) :
        d1st \in {"ok", "raise"}, bars \in {<<B2, B2, B2, B2, B3>>, <<B2>>} }
    \cup
    { Input(m5st, FullM5, 6030, "ok", 0, <<B2, B2, B2, B2, B3>>, DefaultInd,
            DefaultMs, NoLiq) : m5st \in {"raise", "empty"} }

\* a loop that lets an exception escape: the run stops at that symbol
AfterSymbol_Escapes(i, raised) ==
    IF raised THEN Len(symbols_to_analyze) + 1 ELSE i + 1

\* try / except Exception inside the for: the loop goes on to the next symbol
AfterSymbol(i, raised) == i + 1

\* the text of one print of the loop body
Printed(s, raised, r) ==
    IF raised THEN [symbol |-> s, kind |-> "exception", text |-> "Error al analizar"]
    ELSE IF r.kind = "error" THEN [symbol |-> s, kind |-> "error", text |-> r.error]
    ELSE [symbol |-> s, kind |-> "report", text |-> r.decision]

InitBatch ==
    /\ variant \in Variants
    /\ pc = "loop"
    /\ inp = [kind |-> "none"]
    /\ res = [kind |-> "none"]
    /\ idx = 1
    /\ outputs = << >>
    /\ datos_cache = << >>

\* one pass of the for body: analyze_pre_ny returns a report or an error
\* string, or raises; either way one text is printed
\* what the call inside the try leaves: a raised exception or the returned value
Outcome(v, i, raised) == IF raised THEN [kind |-> "raised"] ELSE analyze_pre_ny(v, i)

AnalyzeSymbol ==
    /\ pc = "loop"
    /\ idx <= Len(symbols_to_analyze)
    /\ \E i \in BatchInputs, raised \in BOOLEAN :
          /\ inp' = i
          /\ res' = Outcome(variant, i, raised)
          /\ outputs' = Append(outputs, Printed(symbols_to_analyze[idx], raised, res'))
          /\ idx' = AfterSymbol(idx, raised)
    /\ UNCHANGED <<variant, pc, datos_cache>>

\* the for is exhausted and the script ends
EndRun ==
    /\ pc = "loop"
    /\ idx > Len(symbols_to_analyze)
    /\ pc' = "end"
    /\ UNCHANGED <<variant, inp, res, idx, outputs, datos_cache>>

NextBatch == AnalyzeSymbol \/ EndRun

SpecBatch == InitBatch /\ [][NextBatch]_vars

\* C6: in a batch run every instrument gives exactly one output (report,
\* error message or exception message) in list order, and the run ends only
\* after the last instrument whatever happened to the earlier ones
C6_OneOutputEach ==
    /\ Len(outputs) <= Len(symbols_to_analyze)
    /\ \A k \in 1..Len(outputs) :
          /\ outputs[k].symbol = symbols_to_analyze[k]
          /\ outputs[k].kind \in {"report", "error", "exception"}
    /\ pc = "loop" => idx = Len(outputs) + 1
    /\ pc = "end" => Len(outputs) = Len(symbols_to_analyze)

\* a finished run in which the first instrument raised, the second lacked
\* data and the last one was reported
C6_Witness ==
    /\ pc = "end"
    /\ outputs[1].kind = "exception"
    /\ outputs[2].kind = "error"
    /\ outputs[Len(symbols_to_analyze)].kind = "report"

-----------------------------------------------------------------------------
(* Properties of the market structure *)

Structured == Reported /\ HasStructure(variant)

\* C11: in a consolidating series the phase is ACCUMULATION_IN_RANGE (x0.8)
\* whenever the accumulation score is the greater, DISTRIBUTION_IN_RANGE
\* (x0.8) whenever the distribution score is the greater, and
\* PURE_CONSOLIDATION (x0.5) when the two scores are equal
C11_PhaseInRange ==
    Structured /\ res.is_consolidating =>
        /\ res.accumulation.score > res.distribution.score =>
              res.primary_phase = "ACCUMULATION_IN_RANGE" /\ res.confidence_adjustment = 8
        /\ res.distribution.score > res.accumulation.score =>
              res.primary_phase = "DISTRIBUTION_IN_RANGE" /\ res.confidence_adjustment = 8
        /\ res.distribution.score = res.accumulation.score =>
              res.primary_phase = "PURE_CONSOLIDATION" /\ res.confidence_adjustment = 5

\* a consolidating series whose accumulation score is the greater
C11_Witness ==
    /\ Structured /\ res.is_consolidating
    /\ res.accumulation.score > res.distribution.score
    /\ res.primary_phase = "ACCUMULATION_IN_RANGE"

\* C12: outside consolidation, accumulation detected alone gives
\* STRONG_ACCUMULATION x1.2 (score at least 3.0) or POSSIBLE_ACCUMULATION
\* x1.1, distribution detected alone gives the mirror, and both or neither
\* detected gives TRENDING x1.0
C12_PhaseOutOfRange ==
    Structured /\ ~res.is_consolidating =>
        LET a == res.accumulation
            d == res.distribution
        IN  /\ a.detected /\ ~d.detected =>
                  IF a.score >= 30
                  THEN res.primary_phase = "STRONG_ACCUMULATION"
                       /\ res.confidence_adjustment = 12
                  ELSE res.primary_phase = "POSSIBLE_ACCUMULATION"
                       /\ res.confidence_adjustment = 11
            /\ d.detected /\ ~a.detected =>
                  IF d.score >= 30
                  THEN res.primary_phase = "STRONG_DISTRIBUTION"
                       /\ res.confidence_adjustment = 12
                  ELSE res.primary_phase = "POSSIBLE_DISTRIBUTION"
                       /\ res.confidence_adjustment = 11
            /\ a.detected = d.detected =>
                  res.primary_phase = "TRENDING" /\ res.confidence_adjustment = 10

\* a trending-range series in which accumulation alone is detected, strongly
C12_Witness ==
    /\ Structured /\ ~res.is_consolidating
    /\ res.accumulation.detected /\ ~res.distribution.detected
    /\ res.accumulation.score >= 30
    /\ res.primary_phase = "STRONG_ACCUMULATION"

\* the multiplier each phase label stands for, in tenths
MultiplierOf(phase) ==
    CASE phase = "PURE_CONSOLIDATION" -> 5
      [] phase \in {"ACCUMULATION_IN_RANGE", "DISTRIBUTION_IN_RANGE"} -> 8
      [] phase = "TRENDING" -> 10
      [] phase \in {"POSSIBLE_ACCUMULATION", "POSSIBLE_DISTRIBUTION"} -> 11
      [] phase \in {"STRONG_ACCUMULATION", "STRONG_DISTRIBUTION"} -> 12

\* the one phase that belongs to (isConsolidating, accumScore, distribScore)
PhaseOf(cons, acc, dis) ==
    IF cons
    THEN IF acc > dis THEN "ACCUMULATION_IN_RANGE"
         ELSE IF dis > acc THEN "DISTRIBUTION_IN_RANGE" ELSE "PURE_CONSOLIDATION"
    ELSE IF acc >= 20 /\ dis < 20
         THEN (IF acc >= 30 THEN "STRONG_ACCUMULATION" ELSE "POSSIBLE_ACCUMULATION")
    ELSE IF dis >= 20 /\ acc < 20
         THEN (IF dis >= 30 THEN "STRONG_DISTRIBUTION" ELSE "POSSIBLE_DISTRIBUTION")
    ELSE "TRENDING"

\* C13: the phase is one of the eight labels, it is determined by
\* (isConsolidating, accumulation score, distribution score) alone, and the
\* multiplier is the one of {0.5, 0.8, 1.0, 1.1, 1.2} that the label fixes
C13_PhaseIsFunction ==
    Structured =>
        /\ res.primary_phase \in
              {"PURE_CONSOLIDATION", "ACCUMULATION_IN_RANGE", "DISTRIBUTION_IN_RANGE",
               "TRENDING", "POSSIBLE_ACCUMULATION", "POSSIBLE_DISTRIBUTION",
               "STRONG_ACCUMULATION", "STRONG_DISTRIBUTION"}
        /\ res.primary_phase = PhaseOf(res.is_consolidating, res.accumulation.score,
                                       res.distribution.score)
        /\ res.confidence_adjustment = MultiplierOf(res.primary_phase)

\* a strong distribution outside consolidation, multiplied by 1.2
C13_Witness ==
    /\ Structured
    /\ res.primary_phase = "STRONG_DISTRIBUTION"
    /\ res.confidence_adjustment = 12

-----------------------------------------------------------------------------
(* Correlaciones_LiquidacionesBinanceV1.5.py: PreNYAnalyzer.ejecutar_analisis *)
(* A downloaded frame is the sequence of its closes.  A Binance reading is   *)
(* [ls, funding, taker]: ls = <<[avg, first, last]>> of the last six         *)
(* long/short ratios in hundredths, or None; funding in millionths; taker =  *)
(* <<mean buy/sell ratio in hundredths>>, or None.  Scores are in tenths.    *)

\* the keys of the CRYPTOS dict, in insertion order
CRYPTOS == <<"BTC-USD", "ETH-USD", "SOL-USD", "BNB-USD", "XRP-USD">>

Tickers == {CRYPTOS[k] : k \in 1..Len(CRYPTOS)}

\* descargar_datos: the frame, or None when the download raises or is empty
descargar_datos(f) == IF f.st = "ok" THEN f.closes ELSE None

\* self.datos_cache = {}: no ticker has a frame
EmptyCache == [t \in Tickers |-> None]

\* calcular_correlaciones: every downloaded frame goes into datos_cache; with
\* fewer than two columns the result is (None, None); otherwise the matrix
\* (here: its columns) and the last close of every frame in datos_cache
calcular_correlaciones(cache, fetch) ==
    LET columns == {t \in Tickers : descargar_datos(fetch[t]) # None}
        cached  == [t \in Tickers |->
                       IF t \in columns THEN descargar_datos(fetch[t]) ELSE cache[t]]
    IN  IF Cardinality(columns) < 2
        THEN [datos_cache |-> cached, ok |-> FALSE, correlaciones |-> {}, precios |-> {}]
        ELSE [datos_cache |-> cached, ok |-> TRUE, correlaciones |-> columns,
              precios |-> {[ticker |-> t, precio |-> cached[t][Len(cached[t])]] :
                              t \in {u \in Tickers : cached[u] # None}}]

\* 50 + (score / total) * 30, rounded to one decimal, in tenths of a percent
Probabilidad(score, total) == 500 + (2 * 300 * score + total) \div (2 * total)

\* BinanceLiquidationAnalyzer.predict_direction
predict_direction(b) ==
    IF b.ls = None
    THEN [direccion |-> "NEUTRAL", probabilidad |-> 500, razon |-> "Sin datos disponibles"]
    ELSE LET ratio_trend    == b.ls[1].last - b.ls[1].first
             buy_sell_ratio == IF b.taker = None THEN 100 ELSE b.taker[1]
             avg            == b.ls[1].avg
             ls_bajista  == IF avg > 150 THEN 25
                            ELSE IF avg < 67 THEN 0
                            ELSE IF avg > 120 THEN 15 ELSE 0
             ls_alcista  == IF avg > 150 THEN 0
                            ELSE IF avg < 67 THEN 25
                            ELSE IF avg > 120 THEN 0
                            ELSE IF avg < 83 THEN 15 ELSE 0
             fu_bajista  == IF b.funding > 100 THEN 20
                            ELSE IF b.funding < -100 THEN 0
                            ELSE IF b.funding > 50 THEN 10 ELSE 0
             fu_alcista  == IF b.funding > 100 THEN 0
                            ELSE IF b.funding < -100 THEN 20
                            ELSE IF b.funding > 50 THEN 0
                            ELSE IF b.funding < -50 THEN 10 ELSE 0
             tk_alcista  == IF buy_sell_ratio > 130 THEN 15
                            ELSE IF buy_sell_ratio < 77 THEN 0
                            ELSE IF buy_sell_ratio > 110 THEN 8 ELSE 0
             tk_bajista  == IF buy_sell_ratio > 130 THEN 0
                            ELSE IF buy_sell_ratio < 77 THEN 15
                            ELSE IF buy_sell_ratio > 110 THEN 0
                            ELSE IF buy_sell_ratio < 91 THEN 8 ELSE 0
             tr_bajista  == IF ratio_trend > 10 THEN 10 ELSE 0
             tr_alcista  == IF ratio_trend > 10 THEN 0
                            ELSE IF ratio_trend < -10 THEN 10 ELSE 0
             score_alcista == ls_alcista + fu_alcista + tk_alcista + tr_alcista
             score_bajista == ls_bajista + fu_bajista + tk_bajista + tr_bajista
             total_score   == score_alcista + score_bajista
         IN  IF total_score = 0
             THEN [direccion |-> "NEUTRAL", probabilidad |-> 500, razon |-> "",
                   score_alcista |-> score_alcista, score_bajista |-> score_bajista]
             ELSE IF score_alcista > score_bajista
             THEN [direccion |-> "ALCISTA",
                   probabilidad |-> Probabilidad(score_alcista, total_score), razon |-> "",
                   score_alcista |-> score_alcista, score_bajista |-> score_bajista]
             ELSE [direccion |-> "BAJISTA",
                   probabilidad |-> Probabilidad(score_bajista, total_score), razon |-> "",
                   score_alcista |-> score_alcista, score_bajista |-> score_bajista]

\* len(find_liquidation_zones(...)) with the six default ranges
ZonesCount(b) ==
    IF b.ls = None THEN 0
    ELSE IF b.ls[1].avg > 120 \/ b.ls[1].avg < 80 THEN 6 ELSE 0

\* the precio of ticker t in precios
PrecioDe(precios, t) == (CHOOSE e \in precios : e.ticker = t).precio

\* the for over CRYPTOS.items() from its k-th entry on: a ticker without a
\* price, or whose prediction is 'Sin datos', is skipped; every other one
\* appends its result to resultados
RECURSIVE Resultados(_, _, _)
Resultados(k, precios, binance) ==
    IF k > Len(CRYPTOS) THEN << >>
    ELSE LET ticker     == CRYPTOS[k]
             rest       == Resultados(k + 1, precios, binance)
             prediccion == predict_direction(binance[ticker])
         IN  IF ticker \notin {e.ticker : e \in precios} THEN rest
             ELSE IF prediccion.direccion = "NEUTRAL"
                     /\ prediccion.razon = "Sin datos disponibles" THEN rest
             ELSE <<[ticker |-> ticker, precio |-> PrecioDe(precios, ticker),
                     direccion |-> prediccion.direccion,
                     probabilidad |-> prediccion.probabilidad,
                     zones_count |-> ZonesCount(binance[ticker])]>> \o rest

\* ejecutar_analisis on an analyzer whose datos_cache is cache
ejecutar_analisis(cache, fetch, binance) ==
    LET cc == calcular_correlaciones(cache, fetch)
    IN  [datos_cache |-> cc.datos_cache,
         completed |-> cc.ok,
         correlaciones |-> cc.correlaciones,
         precios |-> cc.precios,
         resultados |-> IF cc.ok THEN Resultados(1, cc.precios, binance) ELSE << >>]

\* what a call leaves to see
Visible(r) == [completed |-> r.completed, correlaciones |-> r.correlaciones,
               precios |-> r.precios, resultados |-> r.resultados]

\* calls of ejecutar_analisis made on one analyzer object
MaxCalls == 2

\* the hourly closes of every ticker whose download works
CloseLevels == {100, 110}

Frame(ok, level) ==
    IF ok THEN [st |-> "ok", closes |-> <<level, level + 2>>]
    ELSE [st |-> "raise", closes |-> << >>]

NoReading == [ls |-> None, funding |-> 0, taker |-> None]

Readings ==
    { NoReading,
      [ls |-> <<[avg |-> 160, first |-> 150, last |-> 170]>>, funding |-> 150,
       taker |-> <<70>>],
      [ls |-> <<[avg |-> 60, first |-> 70, last |-> 50]>>, funding |-> -150,
       taker |-> <<140>>],
      [ls |-> <<[avg |-> 100, first |-> 100, last |-> 100]>>, funding |-> 0,
       taker |-> None],
      [ls |-> <<[avg |-> 125, first |-> 125, last |-> 125]>>, funding |-> -70,
       taker |-> <<115>>] }

\* the sets of tickers whose download may work in one call
FetchedSets ==
    { {}, {"BTC-USD"}, {"ETH-USD", "SOL-USD"}, {"BTC-USD", "XRP-USD"},
      Tickers \ {"BTC-USD"}, Tickers }

\* the tickers Binance may have nothing for while it answers for the others
Unlisted == {{}, {"ETH-USD"}}

InitCorr ==
    /\ variant = "CORR"
    /\ pc = "ready"
    /\ inp = [kind |-> "none"]
    /\ res = [kind |-> "none"]
    /\ idx = 0
    /\ outputs = << >>
    /\ datos_cache = EmptyCache

\* one call of ejecutar_analisis: the downloads succeed for the tickers of
\* fetched, Binance answers with reading for all tickers but those of unlisted
EjecutarAnalisis ==
    /\ pc = "ready"
    /\ idx < MaxCalls
    /\ \E fetched \in FetchedSets, level \in CloseLevels, reading \in Readings,
          unlisted \in Unlisted :
          /\ inp' = [fetch |-> [t \in Tickers |-> Frame(t \in fetched, level)],
                     binance |-> [t \in Tickers |->
                                     IF t \in unlisted THEN NoReading ELSE reading]]
          /\ res' = Visible(ejecutar_analisis(datos_cache, inp'.fetch, inp'.binance))
          /\ datos_cache' = ejecutar_analisis(datos_cache, inp'.fetch, inp'.binance).datos_cache
    /\ idx' = idx + 1
    /\ UNCHANGED <<variant, pc, outputs>>

NextCorr == EjecutarAnalisis

SpecCorr == InitCorr /\ [][NextCorr]_vars

\* calcular_correlaciones got the price series of t
PriceFetched(t) == descargar_datos(inp.fetch[t]) # None

\* Binance answered for t
BinanceFetched(t) == inp.binance[t].ls # None

\* C14: every instrument whose price series (and Binance reading) was
\* fetched receives its own direction prediction, however many of the other
\* instruments failed
C14_FetchedIsPredicted ==
    idx > 0 =>
        \A t \in Tickers :
            PriceFetched(t) /\ BinanceFetched(t) =>
                \E k \in 1..Len(res.resultados) : res.resultados[k].ticker = t

\* C15: a call gives what a new analyzer object gives on the same fetched
\* series: nothing of the result comes from data retained from earlier calls
C15_Stateless ==
    idx > 0 =>
        res = Visible(ejecutar_analisis(EmptyCache, inp.fetch, inp.binance))

\* C19: the items of the score breakdown of a report (gap or level points,
\* structure points, indicator points, volume point and the liquidation
\* boost of LIQ) add up to the confidence before the phase multiplier
C19_BreakdownAddsUp ==
    Reported =>
        res.confidence_before_structure =
              res.gap_level_points + res.structure_points + res.indicator_score
            + (IF res.high_volume THEN 10 ELSE 0) + res.liq_boost

\* C20: a report with a trade decision (SHORT_* or LONG_*) shows an entry
\* price, PP for a PENDIENTE decision and the current price for the others,
\* with a stop and three take-profit prices; a NO_OPERAR report shows no
\* entry
C20_TradeShowsEntry ==
    Reported =>
        /\ IsShortTrade \/ IsLongTrade =>
              /\ res.entry_display =
                    (IF HasPENDIENTE(res.decision) THEN res.PP ELSE res.last_price)
              /\ ~isnan(res.entry_display)
              /\ ~isnan(res.sl_p) /\ ~isnan(res.tp1_p)
              /\ ~isnan(res.tp2_p) /\ ~isnan(res.tp3_p)
        /\ IsNoOperar(res.decision) => isnan(res.entry_display)

-----------------------------------------------------------------------------
(* The active-gap list of V3 as daily bars are appended: after every new    *)
(* bar find_all_gaps_comprehensive is evaluated on the series at the price   *)
(* of that moment                                                            *)

B5 == Bar(6420, 6600, 6420, 6600)

\* a bar of the B4 range whose low comes back to the high of B1
FillBar == Bar(6120, 6300, 5880, 6120)

\* bars appended to a series that opens with the gap up B1 -> B4
MaxAppend == 3

\* B4 bars that follow the opening gap in the long series
LongRun == 117

Repeat(b, n) == [k \in 1..n |-> b]

StartSeries == { <<B1>>, <<B1, B4>> \o Repeat(B4, LongRun) }

AppendedBars == {B1, B4, B5, FillBar}

EvalPrices == {5900, 6000, 6500}

Evaluate(series, price) ==
    /\ inp = [series |-> series, price |-> price]
    /\ res = find_all_gaps_comprehensive(series, price)

InitGaps ==
    /\ variant = "V3"
    /\ pc = "gaps"
    /\ idx = 0
    /\ outputs = << >>
    /\ datos_cache = << >>
    /\ \E series \in StartSeries, price \in EvalPrices : Evaluate(series, price)

\* a new daily bar closes and the gaps are looked for again
AppendBar ==
    /\ pc = "gaps"
    /\ idx < MaxAppend
    /\ \E bar \in AppendedBars, price \in EvalPrices :
          /\ inp' = [series |-> Append(inp.series, bar), price |-> price]
          /\ res' = find_all_gaps_comprehensive(Append(inp.series, bar), price)
    /\ idx' = idx + 1
    /\ UNCHANGED <<variant, pc, outputs, datos_cache>>

NextGaps == AppendBar

SpecGaps == InitGaps /\ [][NextGaps]_vars

\* bar m of the series opens a gap up over bar m - 1
GapUpCreatedAt(s, m) == s[m].L > s[m - 1].H

\* bar m of the series opens a gap down under bar m - 1
GapDownCreatedAt(s, m) == s[m].H < s[m - 1].L

\* a bar after m has come back to the far edge of the gap opened at m
RetracedAfter(s, m) ==
    \/ GapUpCreatedAt(s, m) /\ \E j \in (m + 1)..Len(s) : s[j].L <= s[m - 1].H
    \/ GapDownCreatedAt(s, m) /\ \E j \in (m + 1)..Len(s) : s[j].H >= s[m - 1].L

\* the gap opened at bar m is in the list L (age_days counts from the end)
InList(L, s, m) == \E k \in 1..Len(L) : L[k].age_days = Len(s) - m + 1

\* C16: a gap up created at bar i is in the active-gap list at every
\* evaluation until a later bar has low <= bar[i-1].high, and in none after
C16_GapUpActiveUntilFilled ==
    pc = "gaps" =>
        \A m \in 2..Len(inp.series) :
            GapUpCreatedAt(inp.series, m) =>
                ((InList(res.above, inp.series, m) \/ InList(res.below, inp.series, m))
                    <=> ~RetracedAfter(inp.series, m))

\* the bars of the series that lie in the lookback window with their
\* predecessor
InWindow(s) == { m \in 2..Len(s) : m - 1 > Len(s) - gap_lookback("V3") }

NearestFirst(L, price) ==
    \A k \in 1..(Len(L) - 1) : Abs(L[k].level - price) <= Abs(L[k + 1].level - price)

\* C17: every unfilled gap of the lookback window is in exactly one of the
\* two lists, above or below the price, and each list has the nearest gap
\* first
C17_GapsBucketed ==
    pc = "gaps" =>
        /\ \A m \in InWindow(inp.series) :
              (GapUpCreatedAt(inp.series, m) \/ GapDownCreatedAt(inp.series, m))
                /\ ~RetracedAfter(inp.series, m) =>
                    (InList(res.above, inp.series, m) /\ ~InList(res.below, inp.series, m))
                 \/ (InList(res.below, inp.series, m) /\ ~InList(res.above, inp.series, m))
        /\ NearestFirst(res.above, inp.price)
        /\ NearestFirst(res.below, inp.price)

-----------------------------------------------------------------------------
(* analyze_gap_confluence of LIQ on its own: a gap at 6000 and a frame of    *)
(* liquidations at the gap, on the edge of the 0.4% band and outside it      *)

\* rows of a liquidation frame
MaxRows == 2

LiqRows ==
    { Liq(p, u, t) : p \in {6000, 6024, 6030}, u \in {100, 250, 500, 600},
                     t \in {"LONG_LIQ", "SHORT_LIQ"} }

RECURSIVE FramesOf(_)
\* the frames of exactly n rows
FramesOf(n) ==
    IF n = 0 THEN { << >> }
    ELSE { Append(f, r) : f \in FramesOf(n - 1), r \in LiqRows }

LiqFrames == UNION { FramesOf(n) : n \in 0..MaxRows }

InitLiq ==
    /\ variant = "LIQ"
    /\ pc = "confluence"
    /\ idx = 0
    /\ outputs = << >>
    /\ datos_cache = << >>
    /\ res = None
    /\ \E gap_type \in {"SHORT_TO_FILL", "LONG_TO_FILL"}, liq_df \in LiqFrames :
          inp = [gap_price |-> 6000, gap_type |-> gap_type, liq_df |-> liq_df]

AnalyzeGapConfluence ==
    /\ pc = "confluence"
    /\ pc' = "boosted"
    /\ res' = analyze_gap_confluence(inp.gap_price, inp.gap_type, inp.liq_df)
    /\ UNCHANGED <<variant, inp, idx, outputs, datos_cache>>

NextLiq == AnalyzeGapConfluence

SpecLiq == InitLiq /\ [][NextLiq]_vars

\* the liquidated volume of one side within 0.4% of the gap, in $k
VolumeNear(types) == SumVolume(inp.liq_df, inp.gap_price, types)

TotalNear == VolumeNear({"LONG_LIQ", "SHORT_LIQ"})

\* the liquidated side that a fill of the gap runs against: longs for a
\* gap filled by a short, shorts for a gap filled by a long
OpposingSide == IF inp.gap_type = "SHORT_TO_FILL" THEN "LONG_LIQ" ELSE "SHORT_LIQ"

SameSide == IF inp.gap_type = "SHORT_TO_FILL" THEN "SHORT_LIQ" ELSE "LONG_LIQ"

\* the opposing side has more than 1.5 times the volume of the other
OpposingDominates == 2 * VolumeNear({OpposingSide}) > 3 * VolumeNear({SameSide})

\* C18 as stated: the boost never exceeds +2.0 and is +2.0 for $1M or more
\* opposing the fill, +1.5 for $500k or more, +0.5 for $250k or more and
\* nothing below $250k
C18_AsStated ==
    pc = "boosted" =>
        /\ res.confidence_boost <= 20
        /\ TotalNear >= 1000 /\ OpposingDominates => res.confidence_boost = 20
        /\ TotalNear >= 500 /\ TotalNear < 1000 => res.confidence_boost = 15
        /\ TotalNear >= 250 /\ TotalNear < 500 => res.confidence_boost = 5
        /\ TotalNear < 250 => res.confidence_boost = 0

\* C18: the boost never exceeds +2.0; with the opposing side dominant it
\* is +2.0 from $1M and +1.5 from $500k, without it +1.2 or +0.5 from $1M
\* and +0.8 from $500k; from $250k it is +0.5 and below $250k nothing
C18_Tiers ==
    pc = "boosted" =>
        /\ res.confidence_boost <= 20
        /\ TotalNear >= 1000 =>
              res.confidence_boost =
                  IF OpposingDominates THEN 20
                  ELSE IF VolumeNear({OpposingSide}) > VolumeNear({SameSide}) THEN 12
                  ELSE 5
        /\ TotalNear >= 500 /\ TotalNear < 1000 =>
              res.confidence_boost = IF OpposingDominates THEN 15 ELSE 8
        /\ TotalNear >= 250 /\ TotalNear < 500 => res.confidence_boost = 5
        /\ TotalNear < 250 => res.confidence_boost = 0
        /\ res.has_confluence <=> TotalNear >= 250

\* $500k liquidated at the gap, half of it on each side
C18_Witness ==
    /\ pc = "boosted"
    /\ TotalNear = 500
    /\ VolumeNear({OpposingSide}) = 250
    /\ res.confidence_boost = 8

-----------------------------------------------------------------------------
(* Properties of the levels of a gap-fill decision *)

\* a trade decision on a gap signal: FUERTE, MODERADO or PENDIENTE
IsGapFill ==
    Reported /\ res.gap_signal # "NO_GAP"
             /\ (HasPENDIENTE(res.decision) \/ EndsInmediata(res.decision))

\* the levels of s that lie beyond the entry in the adverse direction
BeyondEntry(dir, s, entry) == { x \in s : StopSide(dir, x, entry) }

\* the nearer to the entry of the pivot level and the historical level among
\* those beyond it, and entry +- 1.5 ATR when there is none
StopAsStated(dir, entry, pivot, hist, atr) ==
    LET cands == BeyondEntry(dir, {pivot, hist}, entry)
    IN  IF cands = {} THEN TowardStop(dir, entry, HalfTimes(3, atr))
        ELSE CHOOSE x \in cands : \A y \in cands : Abs(x - entry) <= Abs(y - entry)

\* C21: the stop-loss of a gap-fill decision is the nearer to the entry of R1
\* (SHORT) or S1 (LONG) and the historical level among those beyond the entry
\* in the adverse direction, and entry +- 1.5 ATR when neither lies beyond it
C21_NearestStop ==
    IsGapFill =>
        res.sl_p = IF HasSHORT(res.decision)
                   THEN StopAsStated("SHORT", res.entry_p, res.R1, res.R2_hist, res.atr)
                   ELSE StopAsStated("LONG", res.entry_p, res.S1, res.S2_hist, res.atr)

-----------------------------------------------------------------------------
(* calculate_pivot_points on its own: the bar before the last is any daily   *)
(* bar (Low <= Open, Close <= High) on a grid of prices of step 3            *)

\* the highest grid step of a bar above 5700
MaxTick == 5

GridPrices == { 5700 + 3 * k : k \in 0..MaxTick }

PriorBars ==
    { Bar(o, h, l, c) : o \in GridPrices, h \in GridPrices, l \in GridPrices, c \in GridPrices }

OhlcBars == { b \in PriorBars : b.L <= b.C /\ b.C <= b.H /\ b.L <= b.O /\ b.O <= b.H }

InitPivot ==
    /\ variant = "V3"
    /\ pc = "pivot"
    /\ idx = 0
    /\ outputs = << >>
    /\ datos_cache = << >>
    /\ res = None
    /\ \E prev \in OhlcBars : inp = [st |-> "ok", d |-> <<prev, prev, B2>>]

CalculatePivotPoints ==
    /\ pc = "pivot"
    /\ pc' = "pivoted"
    /\ res' = calculate_pivot_points(inp.st, inp.d)
    /\ UNCHANGED <<variant, inp, idx, outputs, datos_cache>>

NextPivot == CalculatePivotPoints

SpecPivot == InitPivot /\ [][NextPivot]_vars

\* the bar the pivots are computed from
PriorBar == ILoc(inp.d, 2)

\* C22: for every prior daily bar with High > Low the levels of
\* calculate_pivot_points satisfy R1 > PP > S1
C22_PivotOrder ==
    pc = "pivoted" /\ PriorBar.H > PriorBar.L =>
        /\ res.err = "None"
        /\ 3 * res.PP = PriorBar.H + PriorBar.L + PriorBar.C
        /\ res.R1 > res.PP
        /\ res.PP > res.S1

\* a bar that closes on its low: PP is as near to the low as it gets
C22_Witness ==
    /\ pc = "pivoted"
    /\ PriorBar.H = PriorBar.L + 3
    /\ PriorBar.C = PriorBar.L
    /\ res.R1 = res.PP + 1

-----------------------------------------------------------------------------
(* calculate_rsi on a series of closes.  The value is the fraction num/den  *)
(* (100 * gain / (gain + loss), the same number as 100 - 100 / (1 + rs));   *)
(* gain / loss with loss = 0 is +inf for gain > 0 and NaN for gain = 0.     *)

\* period of calculate_rsi
rsi_period == 14

RECURSIVE SumOver(_, _, _, _)
\* sum of F(closes[k] - closes[k-1]) for k in lo..hi
SumOver(closes, lo, hi, positive) ==
    IF lo > hi THEN 0
    ELSE LET delta == closes[lo] - closes[lo - 1]
         IN  (IF positive THEN (IF delta > 0 THEN delta ELSE 0)
                          ELSE (IF delta < 0 THEN -delta ELSE 0))
             + SumOver(closes, lo + 1, hi, positive)

\* rolling(window = period) sums of the gains and of the losses at the last row
WindowGain(closes) == SumOver(closes, Len(closes) - rsi_period + 1, Len(closes), TRUE)
WindowLoss(closes) == SumOver(closes, Len(closes) - rsi_period + 1, Len(closes), FALSE)

\* the whole function: [defined, num, den], the RSI being num / den
RsiOfCloses(closes) ==
    IF Len(closes) < rsi_period + 1 THEN [defined |-> FALSE, num |-> 0, den |-> 1]
    ELSE LET gain == WindowGain(closes)
             loss == WindowLoss(closes)
         IN  IF loss = 0 /\ gain = 0 THEN [defined |-> FALSE, num |-> 0, den |-> 1]
             ELSE IF loss = 0 THEN [defined |-> TRUE, num |-> 100, den |-> 1]
             ELSE [defined |-> TRUE, num |-> 100 * gain, den |-> gain + loss]

\* the longest series of closes
MaxCloses == 16

RECURSIVE Walk(_, _, _, _, _)
\* closes after start: ups rises, then flats rows without change, then falls
Walk(start, step, ups, flats, downs) ==
    IF ups > 0 THEN <<start + step>> \o Walk(start + step, step, ups - 1, flats, downs)
    ELSE IF flats > 0 THEN <<start>> \o Walk(start, step, 0, flats - 1, downs)
    ELSE IF downs > 0 THEN <<start - step>> \o Walk(start - step, step, 0, 0, downs - 1)
    ELSE << >>

CloseSeries ==
    { <<6000>> \o Walk(6000, step, ups, flats, n - 1 - ups - flats) :
          step \in {1, 3}, n \in {rsi_period, rsi_period + 1, MaxCloses},
          ups \in 0..MaxCloses, flats \in 0..MaxCloses }

InitRsi ==
    /\ variant = "V3"
    /\ pc = "rsi"
    /\ idx = 0
    /\ outputs = << >>
    /\ datos_cache = << >>
    /\ res = None
    /\ \E closes \in CloseSeries : inp = [closes |-> closes]

CalculateRsi ==
    /\ pc = "rsi"
    /\ pc' = "rsi_done"
    /\ res' = RsiOfCloses(inp.closes)
    /\ UNCHANGED <<variant, inp, idx, outputs, datos_cache>>

NextRsi == CalculateRsi

SpecRsi == InitRsi /\ [][NextRsi]_vars

\* C23: on a series of at least period + 1 bars the RSI, when defined, lies
\* in [0, 100], and it is 100 when the average loss over the window is 0
C23_RsiRange ==
    pc = "rsi_done" /\ Len(inp.closes) >= rsi_period + 1 =>
        /\ res.defined => 0 <= res.num /\ res.num <= 100 * res.den
        /\ WindowLoss(inp.closes) = 0 => res.defined /\ res.num = 100 * res.den

-----------------------------------------------------------------------------
(* calculate_macd on its own: the frame has n rows and (line - signal) is   *)
(* d_prev on the row before the last and d_cur on the last                  *)

\* the largest |line - signal|
MaxDiff == 2

InitMacd ==
    /\ variant = "V3"
    /\ pc = "macd"
    /\ idx = 0
    /\ outputs = << >>
    /\ datos_cache = << >>
    /\ res = None
    /\ \E n \in {34, 35, 40}, d_prev \in -MaxDiff..MaxDiff, d_cur \in -MaxDiff..MaxDiff :
          inp = [n |-> n, d_prev |-> d_prev, d_cur |-> d_cur]

CalculateMacd ==
    /\ pc = "macd"
    /\ pc' = "macd_done"
    /\ res' = calculate_macd(inp.n, inp.d_prev, inp.d_cur)
    /\ UNCHANGED <<variant, inp, idx, outputs, datos_cache>>

NextMacd == CalculateMacd

SpecMacd == InitMacd /\ [][NextMacd]_vars

\* the label of the sign of a difference
SignLabel(d) == IF d > 0 THEN "BULLISH" ELSE IF d < 0 THEN "BEARISH" ELSE "NEUTRAL"

\* C24: calculate_macd reports BULLISH_CROSS only when the previous
\* (line - signal) is <= 0 and the current one > 0, BEARISH_CROSS only when
\* the previous is >= 0 and the current < 0, and otherwise BULLISH, BEARISH
\* or NEUTRAL by the sign of the current (line - signal)
C24_MacdCross ==
    pc = "macd_done" /\ inp.n >= 35 =>
        /\ res.cross = "BULLISH_CROSS" <=> (inp.d_prev <= 0 /\ inp.d_cur > 0)
        /\ res.cross = "BEARISH_CROSS" <=> (inp.d_prev >= 0 /\ inp.d_cur < 0)
        /\ res.cross \notin {"BULLISH_CROSS", "BEARISH_CROSS"} =>
              res.cross = SignLabel(inp.d_cur)

\* the lines were level on the previous bar and MACD is above now
C24_Witness ==
    /\ pc = "macd_done" /\ inp.n >= 35
    /\ inp.d_prev = 0 /\ inp.d_cur > 0
    /\ res.cross = "BULLISH_CROSS"

-----------------------------------------------------------------------------
(* Properties of the confidence shown with a decision *)

\* the confidence percentage is at least p / below p
PctAtLeast(p) == res.pct_num >= p * res.max_score
PctBelow(p)   == res.pct_num < p * res.max_score

\* C25: in ESTRATEGIA_TRADING_GAP_FILL.py the confidence percentage of a
\* report lies in the band its decision is documented with: FUERTE at 70%
\* or more, MODERADO from 50% to 69%, RESISTENCIA and SOPORTE at 60% or
\* more, NO_OPERAR below 40%
C25_PctInBand ==
    Reported /\ variant = "V1" =>
        /\ res.decision \in {"SHORT_FUERTE", "LONG_FUERTE"} => PctAtLeast(70)
        /\ res.decision \in {"SHORT_MODERADO", "LONG_MODERADO"} =>
              PctAtLeast(50) /\ PctBelow(70)
        /\ res.decision \in {"SHORT_RESISTENCIA", "LONG_SOPORTE"} => PctAtLeast(60)
        /\ IsNoOperar(res.decision) => PctBelow(40)

-----------------------------------------------------------------------------
(* MultiCryptoTradingStrategy_v3.py: the strategy object and the choice of   *)
(* the signals to trade.  An analysis is a record [crypto, score, key].      *)

Modos == {"conservador", "balanceado", "agresivo"}

\* __init__: the settings of the mode, then the assignments that follow them
MultiCryptoTradingStrategy(modo) ==
    LET by_mode ==
            IF modo = "conservador"
            THEN [max_posiciones_simultaneas |-> 2, score_minimo |-> 65]
            ELSE IF modo = "agresivo"
            THEN [max_posiciones_simultaneas |-> 5, score_minimo |-> 65]
            ELSE [max_posiciones_simultaneas |-> 3, score_minimo |-> 60]
    IN  [modo |-> modo,
         max_posiciones_simultaneas |-> by_mode.max_posiciones_simultaneas,
         score_minimo |-> 50]

RECURSIVE Validas(_, _)
\* [a for a in analisis_cryptos if abs(a['score']) > self.score_minimo]
Validas(analisis_cryptos, score_minimo) ==
    IF analisis_cryptos = << >> THEN << >>
    ELSE (IF Abs(Head(analisis_cryptos).score) > score_minimo
          THEN <<Head(analisis_cryptos)>> ELSE << >>)
         \o Validas(Tail(analisis_cryptos), score_minimo)

\* sorted(validas, key=lambda x: abs(x['score']), reverse=True)
ByStrength(validas) ==
    SortByKey([k \in 1..Len(validas) |-> [validas[k] EXCEPT !.key = -Abs(validas[k].score)]])

seleccionar_mejor_oportunidad(self, analisis_cryptos) ==
    LET validas == Validas(analisis_cryptos, self.score_minimo)
    IN  IF validas = << >>
        THEN [mejores |-> << >>, mensaje |-> "No hay senales suficientemente fuertes"]
        ELSE [mejores |-> SubSeq(ByStrength(validas), 1,
                                Min(Len(validas), self.max_posiciones_simultaneas)),
              mensaje |-> "OK"]

\* the most analyses handed over in one call
MaxAnalisis == 3

Scores == {-70, -62, 52, 58, 66}

RECURSIVE AnalisisOf(_)
\* the lists of n analyses, one per ticker of CRYPTOS in order
AnalisisOf(n) ==
    IF n = 0 THEN { << >> }
    ELSE { Append(l, [crypto |-> CRYPTOS[n], score |-> s, key |-> 0]) :
               l \in AnalisisOf(n - 1), s \in Scores }

InitMulti ==
    /\ variant = "MULTI"
    /\ pc = "new"
    /\ idx = 0
    /\ outputs = << >>
    /\ datos_cache = << >>
    /\ inp = None
    /\ res = None

\* estrategia = MultiCryptoTradingStrategy(modo=...)
Construct ==
    /\ pc = "new"
    /\ pc' = "built"
    /\ \E modo \in Modos : inp' = MultiCryptoTradingStrategy(modo)
    /\ UNCHANGED <<variant, res, idx, outputs, datos_cache>>

Seleccionar ==
    /\ pc = "built"
    /\ pc' = "selected"
    /\ \E n \in 0..MaxAnalisis : \E analisis \in AnalisisOf(n) :
          outputs' = analisis
    /\ res' = seleccionar_mejor_oportunidad(inp, outputs')
    /\ UNCHANGED <<variant, inp, idx, datos_cache>>

NextMulti == Construct \/ Seleccionar

SpecMulti == InitMulti /\ [][NextMulti]_vars

\* the minimum score the modes are announced with
ModeMinimum(modo) == IF modo = "balanceado" THEN 60 ELSE 65

\* C26: a strategy built with a mode uses the minimum score of that mode
\* (65, 60, 65) and seleccionar_mejor_oportunidad selects no signal whose
\* absolute score is at or below it
C26_ModeMinimum ==
    pc \in {"built", "selected"} =>
        /\ inp.score_minimo = ModeMinimum(inp.modo)
        /\ pc = "selected" =>
              \A k \in 1..Len(res.mejores) :
                  Abs(res.mejores[k].score) > ModeMinimum(inp.modo)

\* C27: every trade decision of V3 (SHORT_* or LONG_*) carries a stop-loss
\* and TP1, TP2 and TP3 that are numbers, also without an intraday ATR,
\* a historical level or a further gap
C27_LevelsDefined ==
    Reported /\ variant = "V3" /\ (IsShortTrade \/ IsLongTrade) =>
        ~(isnan(res.sl_p) \/ isnan(res.tp1_p) \/ isnan(res.tp2_p) \/ isnan(res.tp3_p))

-----------------------------------------------------------------------------
(* The cache of BinanceLiquidationAnalyzer.get_liquidations.  The clock     *)
(* counts minutes; a cache entry is None or <<[time, data]>>; the frame of a *)
(* successful request names the symbol and the limit it was asked for.       *)

\* self.cache_duration = timedelta(minutes=5)
cache_duration == 5

\* the last minute of the clock
MaxClock == 6

CacheKeys == { <<"BTCUSDT", 1000>>, <<"BTCUSDT", 500>>, <<"ETHUSDT", 1000>> }

\* self.cache = {}
EmptyLiqCache == [k \in CacheKeys |-> None]

\* what Binance answers to a request for key: an error, no rows, or rows
Answers(key) ==
    { [st |-> "error", data |-> << >>], [st |-> "ok", data |-> << >>] }
    \cup { [st |-> "ok", data |-> <<[symbol |-> key[1], limit |-> key[2], batch |-> b]>>] :
              b \in {1, 2} }

\* a cache test that never looks at the age of the entry
Fresh_Forever(cache, key, now) == cache[key] # None

\* cache_key in self.cache and datetime.now() - cached_time < self.cache_duration
Fresh(cache, key, now) ==
    cache[key] # None /\ now - cache[key][1].time < cache_duration

\* get_liquidations with its cache: what it returns, the cache it leaves and
\* whether it made a request
get_liquidations_cached(cache, key, now, answer) ==
    IF Fresh(cache, key, now)
    THEN [ret |-> cache[key][1].data, cache |-> cache, fetched |-> FALSE]
    ELSE LET df == get_liquidations(answer)
         IN  IF df = None THEN [ret |-> None, cache |-> cache, fetched |-> TRUE]
             ELSE [ret |-> df,
                   cache |-> [cache EXCEPT ![key] = <<[time |-> now, data |-> df]>>],
                   fetched |-> TRUE]

InitCache ==
    /\ variant = "LIQ"
    /\ pc = "cache"
    /\ idx = 0
    /\ outputs = << >>
    /\ datos_cache = EmptyLiqCache
    /\ inp = None
    /\ res = None

\* a minute passes
Tick ==
    /\ pc = "cache"
    /\ idx < MaxClock
    /\ idx' = idx + 1
    /\ UNCHANGED <<variant, pc, inp, res, outputs, datos_cache>>

GetLiquidations ==
    /\ pc = "cache"
    /\ \E key \in CacheKeys : \E answer \in Answers(key) :
          inp' = [key |-> key, answer |-> answer]
    /\ res' = [ret |-> get_liquidations_cached(datos_cache, inp'.key, idx, inp'.answer).ret,
               fetched |->
                   get_liquidations_cached(datos_cache, inp'.key, idx, inp'.answer).fetched]
    /\ datos_cache' = get_liquidations_cached(datos_cache, inp'.key, idx, inp'.answer).cache
    /\ UNCHANGED <<variant, pc, idx, outputs>>

NextCache == Tick \/ GetLiquidations

SpecCache == InitCache /\ [][NextCache]_vars

\* a step that is a call of get_liquidations (the clock stands still)
IsCall == idx' = idx /\ inp' # None

\* the answer of the call is a failure or has no rows
AnswerFailed == inp'.answer.st # "ok" \/ inp'.answer.data = << >>

\* C28: get_liquidations serves a stored snapshot only if it was fetched
\* successfully for the same symbol and limit less than cache_duration ago;
\* once cache_duration has elapsed the next call makes a new request; a
\* failed or empty request neither creates nor overwrites a cache entry
C28_CacheRule ==
    [][IsCall =>
        /\ ~res'.fetched =>
              /\ datos_cache[inp'.key] # None
              /\ idx - datos_cache[inp'.key][1].time < cache_duration
              /\ res'.ret = datos_cache[inp'.key][1].data
              /\ res'.ret[1].symbol = inp'.key[1] /\ res'.ret[1].limit = inp'.key[2]
        /\ (datos_cache[inp'.key] # None
              /\ idx - datos_cache[inp'.key][1].time >= cache_duration) => res'.fetched
        /\ datos_cache[inp'.key] = None => res'.fetched
        /\ res'.fetched /\ AnswerFailed => datos_cache' = datos_cache /\ res'.ret = None
        /\ res'.fetched /\ ~AnswerFailed =>
              /\ res'.ret = inp'.answer.data
              /\ datos_cache'[inp'.key] = <<[time |-> idx, data |-> inp'.answer.data]>>
    ]_vars

\* a snapshot of minute 0 asked for again after the cache duration, with a
\* request that fails: the old entry is still there and nothing is returned
C28_Witness ==
    /\ pc = "cache" /\ inp # None
    /\ idx >= cache_duration
    /\ datos_cache[inp.key] # None
    /\ datos_cache[inp.key][1].time = 0
    /\ res.fetched /\ res.ret = None

-----------------------------------------------------------------------------
(* The confluence boost against the liquidated volume *)

\* the frame with every volume multiplied by k: the same rows, the same
\* shares of longs and shorts, k times the total
Scaled(liq_df, k) ==
    [i \in 1..Len(liq_df) |-> [liq_df[i] EXCEPT !.usd_volume = k * liq_df[i].usd_volume]]

\* C29: for one gap direction and one long/short composition of the
\* liquidations near the gap the boost of analyze_gap_confluence does not
\* decrease when the total volume grows
C29_BoostMonotone ==
    pc = "boosted" =>
        \A k \in 2..4 :
            analyze_gap_confluence(inp.gap_price, inp.gap_type,
                                   Scaled(inp.liq_df, k)).confidence_boost
                >= res.confidence_boost

-----------------------------------------------------------------------------
(* predict_direction on its own, on what Binance answers for one symbol:    *)
(* long/short ratio in hundredths, funding in millionths, buy/sell ratio in *)
(* hundredths                                                                *)

LsReadings ==
    { None }
    \cup { <<[avg |-> avg, first |-> avg - trend \div 2, last |-> avg + trend \div 2]>> :
              avg \in {60, 100, 125, 160}, trend \in {-20, 0, 20} }

FundingReadings == {-150, -70, 0, 70, 150}

TakerReadings == { None, <<70>>, <<85>>, <<100>>, <<115>>, <<140>> }

InitPredict ==
    /\ variant = "CORR"
    /\ pc = "predict"
    /\ idx = 0
    /\ outputs = << >>
    /\ datos_cache = << >>
    /\ res = None
    /\ \E ls \in LsReadings, funding \in FundingReadings, taker \in TakerReadings :
          inp = [ls |-> ls, funding |-> funding, taker |-> taker]

PredictDirection ==
    /\ pc = "predict"
    /\ pc' = "predicted"
    /\ res' = predict_direction(inp)
    /\ UNCHANGED <<variant, inp, idx, outputs, datos_cache>>

NextPredict == PredictDirection

SpecPredict == InitPredict /\ [][NextPredict]_vars

\* C30: predict_direction returns BAJISTA only when the bearish score is
\* strictly greater than the bullish one, ALCISTA only when the bullish score
\* is strictly greater, and NEUTRAL with probability 50 when they are equal
C30_StrictDirection ==
    pc = "predicted" /\ inp.ls # None =>
        /\ res.direccion = "BAJISTA" => res.score_bajista > res.score_alcista
        /\ res.direccion = "ALCISTA" => res.score_alcista > res.score_bajista
        /\ res.score_alcista = res.score_bajista =>
              res.direccion = "NEUTRAL" /\ res.probabilidad = 500

=============================================================================
